---- MODULE Spec2Model ----
(***************************************************************************)
(* Model of ls2csv.py: the walk of the root paths by _main(), the          *)
(* directory scan and classification (_scandir, DirEntry.set_type), the    *)
(* traversal order of walk(), and the collection of one node's metadata    *)
(* (get_node_infos, get_symlink_infos, get_node_content_checksum).         *)
(*                                                                         *)
(* The file system and the external `ls` command are the environment:      *)
(* what a directory holds is chosen when os.scandir() lists it, and what   *)
(* readlink(), Path.resolve(), `ls`, lexists(), get?time() and open()      *)
(* answer is chosen when the code calls them.                              *)
(*                                                                         *)
(* A file name is a sequence of code points, a path the sequence of its    *)
(* components from the root `/`; an optional value (Python's None or a     *)
(* value) is a sequence of length 0 or 1.                                  *)
(***************************************************************************)
EXTENDS Integers, Sequences, FiniteSets, TLC

\* ------------------------------------------------------------------ bounds

\* Number of directory entries os.scandir() hands over in all during one run,
\* when the OS and `ls` may answer anything (Spec).
MaxEntries == 2

\* The same number when they answer as on a quiet, healthy file system
\* (SpecTree): wider trees of entries of every kind, every answer the
\* nominal one.
MaxTreeEntries == 4

\* The same number on a quiet file system without symlinks (SpecDeep): trees
\* deep enough for two sibling directories to hold a grandchild and a child.
MaxDeepEntries == 5

\* The same number for the walk of the directory of the script (SpecSelf):
\* room for the script, the output file and the log file.
MaxSelfEntries == 3

\* The same number for the walks that a stop signal may end (SpecStop).
MaxStopEntries == 4

\* --------------------------------------------------------------- constants

None == <<>>
Some(v) == <<v>>

\* File names the bounded file system draws from: "a" < "ab" < "b".
Names == {<<1>>, <<1, 2>>, <<2>>}

\* NodeType members met by the code (NodeType.other is never assigned).
NodeType == {"directory", "file", "symlink", "unknown", "excluded"}

\* SymLinkType members.
SymLinkType == {"directory", "file", "symlink", "unknown", "broken", "circular"}

\* What os.DirEntry's is_symlink() / is_dir() / is_file() tell about an entry:
\* one of the three kinds, none of them ("other": a fifo, a socket, a device),
\* or an OSError raised by the probe.
OsKinds == {"dir", "file", "symlink", "other", "oserror"}

\* NodeType.as_ls_output_char
as_ls_output_char(type_) ==
    CASE type_ = "file" -> "-"
      [] type_ = "directory" -> "d"
      [] type_ = "symlink" -> "l"
      [] OTHER -> "?"

\* ------------------------------------------------------------------- names

\* Python's comparison of two str values: lexicographic on code points.
RECURSIVE StrLess(_, _)
StrLess(a, b) ==
    IF a = <<>> THEN b # <<>>
    ELSE IF b = <<>> THEN FALSE
    ELSE IF Head(a) # Head(b) THEN Head(a) < Head(b)
    ELSE StrLess(Tail(a), Tail(b))

\* Insertion of one entry in a list sorted by name, after its equals.
RECURSIVE InsertByName(_, _)
InsertByName(e, s) ==
    IF s = <<>> THEN <<e>>
    ELSE IF StrLess(e.name, Head(s).name) THEN <<e>> \o s
    ELSE <<Head(s)>> \o InsertByName(e, Tail(s))

\* A _scandir that leaves a bucket in the order of the OS.
sorted_skipped(s) == s

\* sorted(entries, key=lambda entry: entry.name): a stable ascending sort.
RECURSIVE sorted(_)
sorted(s) ==
    IF s = <<>> THEN <<>>
    ELSE InsertByName(s[Len(s)], sorted(SubSeq(s, 1, Len(s) - 1)))

\* -------------------------------------------------------------- exclusion

\* p.startswith-like test on sequences: p is the beginning of q.
IsPrefix(p, q) == Len(p) <= Len(q) /\ SubSeq(q, 1, Len(p)) = p

\* The code points of "/" and of a line feed.
Slash == 47
Newline == 10

RECURSIVE Concat(_)
Concat(texts) ==
    IF texts = <<>> THEN <<>> ELSE Head(texts) \o Concat(Tail(texts))

\* str(path) of an absolute path.
PathStr(path) ==
    IF path = <<>> THEN <<Slash>>
    ELSE Concat([i \in 1..Len(path) |-> <<Slash>> \o path[i]])

\* One compiled pattern of extend_excluded: the path it was made from, whether
\* that path ended with a slash, and the escaped text put between "^" and
\* "$" or "(/.*)?$".
Pattern(path, is_dir) ==
    [path |-> path, is_dir |-> is_dir, literal |-> PathStr(path)]

\* "$" of a regular expression met with `rest` left to read: the end of the
\* text, or the line feed that ends it.
AtEnd(rest) == rest = <<>> \/ rest = <<Newline>>

\* "(/.*)?$" met with `rest` left to read: nothing, or a slash and
\* characters other than a line feed, then the end.
ChildrenThenEnd(rest) ==
    \/ AtEnd(rest)
    \/ /\ rest # <<>>
       /\ rest[1] = Slash
       /\ \E k \in 1..Len(rest) :
             /\ \A i \in 2..k : rest[i] # Newline
             /\ AtEnd(SubSeq(rest, k + 1, Len(rest)))

\* pattern.match(str(path)) for one compiled pattern: "^", the escaped text
\* of the pattern's path, "(/.*)?" for a directory pattern, "$".
PatternMatch(pattern, text) ==
    /\ IsPrefix(pattern.literal, text)
    /\ LET rest == SubSeq(text, Len(pattern.literal) + 1, Len(text))
       IN  IF pattern.is_dir THEN ChildrenThenEnd(rest) ELSE AtEnd(rest)

\* Options.is_path_excluded
is_path_excluded(excluded, path) ==
    LET text == PathStr(path)
    IN  \E i \in 1..Len(excluded) : PatternMatch(excluded[i], text)

\* An extend_excluded that compiles the explicit list alone.
extend_excluded_explicit_only(excluded, script_path, output_path, logfile_path) ==
    excluded

\* extend_excluded: the explicit list, then the script path, the output path
\* and the logfile path when set.
extend_excluded(excluded, script_path, output_path, logfile_path) ==
    excluded
    \o <<Pattern(script_path, FALSE)>>
    \o (IF output_path # None THEN <<Pattern(output_path[1], FALSE)>> ELSE <<>>)
    \o (IF logfile_path # None THEN <<Pattern(logfile_path[1], FALSE)>> ELSE <<>>)

\* ---------------------------------------------------------- classification

\* os.DirEntry.is_symlink(), is_dir() and is_file() on an entry of the OS of
\* some kind.  Followed, the symlinks of the model lead to a directory.
is_symlink(entry) == entry.kind = "symlink"
is_dir(entry, follow_symlinks) ==
    \/ entry.kind = "dir"
    \/ follow_symlinks /\ entry.kind = "symlink"
is_file(entry, follow_symlinks) == entry.kind = "file"

\* A set_type that asks is_dir() first, and lets it follow symlinks.
set_type_following(excluded, parent_dirpath, entry) ==
    IF is_path_excluded(excluded, parent_dirpath \o <<entry.name>>) THEN "excluded"
    ELSE IF entry.kind = "oserror" THEN "unknown"
    ELSE IF is_dir(entry, TRUE) THEN "directory"
    ELSE IF is_symlink(entry) THEN "symlink"
    ELSE IF is_file(entry, TRUE) THEN "file"
    ELSE "unknown"

\* A set_type that does not look at the exclusion patterns.
set_type_unfiltered(excluded, parent_dirpath, entry) ==
    IF entry.kind = "oserror" THEN "unknown"
    ELSE IF is_symlink(entry) THEN "symlink"
    ELSE IF is_dir(entry, FALSE) THEN "directory"
    ELSE IF is_file(entry, FALSE) THEN "file"
    ELSE "unknown"

\* DirEntry.set_type: the type of the entry `entry` (an os.DirEntry: its name
\* and what probing it tells) found in directory parent_dirpath.  An entry of
\* kind "oserror" is one whose probing raises OSError.
set_type(excluded, parent_dirpath, entry) ==
    IF is_path_excluded(excluded, parent_dirpath \o <<entry.name>>) THEN "excluded"
    ELSE IF entry.kind = "oserror" THEN "unknown"
    ELSE IF is_symlink(entry) THEN "symlink"
    ELSE IF is_dir(entry, FALSE) THEN "directory"
    ELSE IF is_file(entry, FALSE) THEN "file"
    ELSE "unknown"

\* The paths DirEntry.set_type probes the OS about: none when the path is
\* excluded, as set_type returns before the probes.
type_probes(excluded, parent_dirpath, entry) ==
    IF is_path_excluded(excluded, parent_dirpath \o <<entry.name>>) THEN {}
    ELSE {parent_dirpath \o <<entry.name>>}

\* DirEntry(parent_dirpath, entry, options)
DirEntry(excluded, parent_dirpath, entry) ==
    [path |-> parent_dirpath \o <<entry.name>>,
     name |-> entry.name,
     type |-> set_type(excluded, parent_dirpath, entry)]

\* ---------------------------------------------------------- directory scan

\* The entries of one type, in the order met (one list the loop appends to).
OfType(entries, t) ==
    LET Test(e) == e.type = t
    IN  SelectSeq(entries, Test)

\* _scandir: os_entries are the entries os.scandir() handed over, in the
\* order of the OS, before it ended or raised OSError (which is logged and
\* swallowed).  Each is wrapped and classified once, put in the bucket of
\* its type, and all buckets but `excluded` are sorted by name.
_scandir(excluded, parent_dirpath, os_entries) ==
    LET entries == [i \in 1..Len(os_entries) |->
                        DirEntry(excluded, parent_dirpath, os_entries[i])]
    IN  [directories |-> sorted(OfType(entries, "directory")),
         files       |-> sorted(OfType(entries, "file")),
         links       |-> sorted(OfType(entries, "symlink")),
         excluded    |-> OfType(entries, "excluded"),
         unknowns    |-> sorted(OfType(entries, "unknown"))]

\* ------------------------------------------------------------ symbolic links

\* SymLink(type_, linked_path, resolved_linked_path)
SymLink(type_, linked_path, resolved_linked_path) ==
    [type |-> type_,
     _linked_path |-> linked_path,
     _resolved_linked_path |-> resolved_linked_path]

\* SymLink.linked_path: the property builds Path(self._linked_path) without
\* returning it, and falls through to `return None`.
linked_path(symlink) == None

\* SymLink.resolved_linked_path: same shape as linked_path.
resolved_linked_path(symlink) == None

\* Result(value, error_msg); `raised` names the exception that left the
\* function instead of a Result ("" when it returned).
Result(value, error_msg) == [raised |-> "", value |-> value, error_msg |-> error_msg]
Raised(exception) == [raised |-> exception, value |-> None, error_msg |-> None]

\* The link value made absolute against the link's parent directory.
MakeAbsolute(entry_path, value) ==
    IF value.absolute THEN value.parts
    ELSE SubSeq(entry_path, 1, Len(entry_path) - 1) \o value.parts

\* Path.resolve() of the absolute link value: the path reached by following
\* every further link, which is the path itself when there is none.
Resolve(abs_path, lnk) == IF lnk.chained THEN lnk.final ELSE abs_path

\* get_symlink_infos.  lnk is what the OS answers: readlink(), the lenient
\* Path.resolve(), Path.resolve(strict=True) and the probes of the target.
get_symlink_infos(dir_entry, lnk) ==
    IF lnk.readlink # "ok"
    THEN \* both except clauses format an undefined name `path`
         Raised("NameError")
    ELSE
    LET linked == MakeAbsolute(dir_entry.path, lnk.value)
        linked_abspath == Resolve(linked, lnk)
    IN  IF lnk.resolve = "loop"
        THEN \* Path.resolve() raises RuntimeError outside of any try
             Raised("RuntimeError")
        ELSE IF lnk.strict = "notfound"
        THEN Result(Some(SymLink("broken", Some(linked_abspath), None)), None)
        ELSE IF lnk.strict = "loop"
        THEN Result(Some(SymLink("circular", Some(linked_abspath), None)), None)
        ELSE IF lnk.probe = "symlink"
        THEN Result(Some(SymLink("symlink", Some(linked_abspath), Some(linked_abspath))), None)
        ELSE IF lnk.probe = "dir"
        THEN Result(Some(SymLink("directory", Some(linked_abspath), Some(linked_abspath))), None)
        ELSE IF lnk.probe = "file"
        THEN Result(Some(SymLink("file", Some(linked_abspath), Some(linked_abspath))), None)
        ELSE IF lnk.probe = "other"
        THEN \* SymLinkType.unkown is no member of the enumeration
             Raised("AttributeError")
        ELSE \* PermissionError / OSError caught: type_ was never bound
             Raised("UnboundLocalError")

\* ----------------------------------------------------------- node metadata

\* The keyword arguments of NodeInfos() left to their default.
NoInfos ==
    [links_nb |-> None, size |-> None, perms |-> None, user_owner |-> None,
     group_owner |-> None, security |-> None,
     atime |-> None, mtime |-> None, ctime |-> None,
     symlink_type |-> None, symlink_value |-> None,
     resolved_symlink_path |-> None, error_msgs |-> <<>>, ls_output |-> None]

\* NodeInfos.__init__'s `if atime:` ... fromtimestamp(atime): a time is kept
\* when the value given is truthy.
TimeField(t) == IF t # None /\ t[1] # 0 THEN t ELSE None

\* NodeInfos.__init__
NodeInfos(path, type_, kw) ==
    [path |-> path, type |-> type_,
     links_nb |-> kw.links_nb, size |-> kw.size, perms |-> kw.perms,
     user_owner |-> kw.user_owner, group_owner |-> kw.group_owner,
     security |-> kw.security,
     atime |-> TimeField(kw.atime), mtime |-> TimeField(kw.mtime),
     ctime |-> TimeField(kw.ctime),
     symlink_type |-> kw.symlink_type, symlink_value |-> kw.symlink_value,
     resolved_symlink_path |-> kw.resolved_symlink_path,
     checksums |-> None,
     error_msgs |-> kw.error_msgs, ls_output |-> kw.ls_output]

\* NodeInfos.has_error
has_error(node_infos) == Len(node_infos.error_msgs) # 0

\* LS_OUTPUT_REGEX.match(_ls_output): the pattern matches a whole well-formed
\* line and nothing else.
LsMatch(stdout) == stdout.shape = "line"

\* The messages get_node_infos and process_dir_entry attach to a record.
MsgNotExisting == "Path seems to either not exist"
MsgBroken == "Sym.link is broken"
MsgCircular == "Sym.link could not be resolved"
MsgLinkUnknown == "Sym.link value could not be resolved to a type"
MsgLsFailed == "Failed to run ls"
MsgLsUnparsed == "Unable to parse output of ls command"
MsgTypesDiffer == "Types differ"
MsgNoTimes == "Unable to retrieve either atime, mtime and/or ctime"
MsgChecksumGone == "does not point to a valid file anymore"
MsgChecksumUnreadable == "Unable to open and read"

\* A get_node_infos that appends no message for a broken link.
SymlinkPart_silent(symlink_result) ==
    LET msgs1 == IF symlink_result.error_msg # None
                 THEN <<symlink_result.error_msg[1]>> ELSE <<>>
    IN  IF symlink_result.value = None
        THEN [error_msgs |-> msgs1, symlink_value |-> None,
              symlink_type |-> None, resolved_symlink_path |-> None]
        ELSE LET symlink == symlink_result.value[1]
             IN  [error_msgs |-> msgs1 \o
                        (IF symlink.type = "circular" THEN <<MsgCircular>>
                         ELSE IF symlink.type = "unknown" THEN <<MsgLinkUnknown>>
                         ELSE <<>>),
                  symlink_value |-> linked_path(symlink),
                  symlink_type |-> Some(symlink.type),
                  resolved_symlink_path |-> resolved_linked_path(symlink)]

\* get_node_infos, the part on symbolic links (lines 1220-1246): the messages
\* appended and the three symlink fields, given get_symlink_infos' Result.
SymlinkPart(symlink_result) ==
    LET msgs1 == IF symlink_result.error_msg # None
                 THEN <<symlink_result.error_msg[1]>> ELSE <<>>
    IN  IF symlink_result.value = None
        THEN [error_msgs |-> msgs1, symlink_value |-> None,
              symlink_type |-> None, resolved_symlink_path |-> None]
        ELSE LET symlink == symlink_result.value[1]
             IN  [error_msgs |-> msgs1 \o
                        (IF symlink.type = "broken" THEN <<MsgBroken>>
                         ELSE IF symlink.type = "circular" THEN <<MsgCircular>>
                         ELSE IF symlink.type = "unknown" THEN <<MsgLinkUnknown>>
                         ELSE <<>>),
                  symlink_value |-> linked_path(symlink),
                  symlink_type |-> Some(symlink.type),
                  resolved_symlink_path |-> resolved_linked_path(symlink)]

\* A get_node_infos that keeps the text of `ls` whether it parsed or not.
LsPart_raw(type_, ls) ==
    LET nothing == [error_msgs |-> <<>>, ls_output |-> None,
                    perms |-> None, links_nb |-> None, user_owner |-> None,
                    group_owner |-> None, security |-> None, size |-> None]
    IN  IF ls.rc # "ok"
        THEN [nothing EXCEPT !.error_msgs = <<MsgLsFailed>>]
        ELSE IF ls.stdout.shape = "empty"
        THEN nothing
        ELSE IF ~LsMatch(ls.stdout)
        THEN [nothing EXCEPT !.error_msgs = <<MsgLsUnparsed>>,
                             !.ls_output = Some(ls.stdout)]
        ELSE [error_msgs |-> IF ls.stdout.p_type # as_ls_output_char(type_)
                             THEN <<MsgTypesDiffer>> ELSE <<>>,
              ls_output |-> Some(ls.stdout),
              perms |-> Some(ls.stdout.p_perms),
              links_nb |-> Some(ls.stdout.links_nb),
              user_owner |-> Some(ls.stdout.user_owner),
              group_owner |-> Some(ls.stdout.group_owner),
              security |-> Some(ls.stdout.security),
              size |-> Some(ls.stdout.size)]

\* A get_node_infos that drops what it parsed when the types differ.
LsPart_discarding(type_, ls) ==
    LET nothing == [error_msgs |-> <<>>, ls_output |-> None,
                    perms |-> None, links_nb |-> None, user_owner |-> None,
                    group_owner |-> None, security |-> None, size |-> None]
    IN  IF ls.rc # "ok"
        THEN [nothing EXCEPT !.error_msgs = <<MsgLsFailed>>]
        ELSE IF ls.stdout.shape = "empty"
        THEN nothing
        ELSE IF ~LsMatch(ls.stdout)
        THEN [nothing EXCEPT !.error_msgs = <<MsgLsUnparsed>>,
                             !.ls_output = Some(ls.stdout)]
        ELSE IF ls.stdout.p_type # as_ls_output_char(type_)
        THEN [nothing EXCEPT !.error_msgs = <<MsgTypesDiffer>>]
        ELSE [error_msgs |-> <<>>,
              ls_output |-> None,
              perms |-> Some(ls.stdout.p_perms),
              links_nb |-> Some(ls.stdout.links_nb),
              user_owner |-> Some(ls.stdout.user_owner),
              group_owner |-> Some(ls.stdout.group_owner),
              security |-> Some(ls.stdout.security),
              size |-> Some(ls.stdout.size)]

\* A get_node_infos that says nothing of a failed `ls`.
LsPart_failure_silent(type_, ls) ==
    [error_msgs |-> IF ls.rc = "ok" /\ ls.stdout.shape = "garbage"
                    THEN <<MsgLsUnparsed>>
                    ELSE IF ls.rc = "ok" /\ ls.stdout.shape = "line"
                            /\ ls.stdout.p_type # as_ls_output_char(type_)
                    THEN <<MsgTypesDiffer>> ELSE <<>>,
     ls_output |-> IF ls.rc = "ok" /\ ls.stdout.shape = "garbage"
                   THEN Some(ls.stdout) ELSE None,
     perms |-> IF ls.rc = "ok" /\ ls.stdout.shape = "line"
               THEN Some(ls.stdout.p_perms) ELSE None,
     links_nb |-> IF ls.rc = "ok" /\ ls.stdout.shape = "line"
                  THEN Some(ls.stdout.links_nb) ELSE None,
     user_owner |-> IF ls.rc = "ok" /\ ls.stdout.shape = "line"
                    THEN Some(ls.stdout.user_owner) ELSE None,
     group_owner |-> IF ls.rc = "ok" /\ ls.stdout.shape = "line"
                     THEN Some(ls.stdout.group_owner) ELSE None,
     security |-> IF ls.rc = "ok" /\ ls.stdout.shape = "line"
                  THEN Some(ls.stdout.security) ELSE None,
     size |-> IF ls.rc = "ok" /\ ls.stdout.shape = "line"
              THEN Some(ls.stdout.size) ELSE None]

\* get_node_infos, the part on the `ls` command (lines 1248-1285): the
\* messages appended, the listing fields and the unparsed text.
LsPart(type_, ls) ==
    LET nothing == [error_msgs |-> <<>>, ls_output |-> None,
                    perms |-> None, links_nb |-> None, user_owner |-> None,
                    group_owner |-> None, security |-> None, size |-> None]
    IN  IF ls.rc # "ok"
        THEN [nothing EXCEPT !.error_msgs = <<MsgLsFailed>>]
        ELSE IF ls.stdout.shape = "empty"
        THEN nothing
        ELSE IF ~LsMatch(ls.stdout)
        THEN [nothing EXCEPT !.error_msgs = <<MsgLsUnparsed>>,
                             !.ls_output = Some(ls.stdout)]
        ELSE [error_msgs |-> IF ls.stdout.p_type # as_ls_output_char(type_)
                             THEN <<MsgTypesDiffer>> ELSE <<>>,
              ls_output |-> None,
              perms |-> Some(ls.stdout.p_perms),
              links_nb |-> Some(ls.stdout.links_nb),
              user_owner |-> Some(ls.stdout.user_owner),
              group_owner |-> Some(ls.stdout.group_owner),
              security |-> Some(ls.stdout.security),
              size |-> Some(ls.stdout.size)]

\* get_node_infos.  env is what the OS and `ls` answer for this node; the
\* result is the NodeInfos built, or the exception that left the function.
get_node_infos(dir_entry, env) ==
    LET msgs0 == IF ~env.exists THEN <<MsgNotExisting>> ELSE <<>>
        symlink_result == IF dir_entry.type = "symlink"
                          THEN get_symlink_infos(dir_entry, env.lnk)
                          ELSE Result(None, None)
        sym == SymlinkPart(symlink_result)
        lsp == LsPart(dir_entry.type, env.ls)
        msgs3 == IF env.times = None THEN <<MsgNoTimes>> ELSE <<>>
    IN  IF symlink_result.raised # ""
        THEN [raised |-> symlink_result.raised, node |-> None]
        ELSE [raised |-> "",
              node |-> Some(NodeInfos(dir_entry.path, dir_entry.type,
                 [links_nb |-> lsp.links_nb, size |-> lsp.size,
                  perms |-> lsp.perms, user_owner |-> lsp.user_owner,
                  group_owner |-> lsp.group_owner, security |-> lsp.security,
                  atime |-> env.times, mtime |-> env.times, ctime |-> env.times,
                  symlink_type |-> sym.symlink_type,
                  symlink_value |-> sym.symlink_value,
                  resolved_symlink_path |-> sym.resolved_symlink_path,
                  error_msgs |-> msgs0 \o sym.error_msgs \o lsp.error_msgs \o msgs3,
                  ls_output |-> lsp.ls_output]))]

\* A get_node_content_checksum that hashes nothing when the read failed,
\* and forgets the error.
get_node_content_checksum_unchecked(env) ==
    IF env.cks = "gone" THEN Result(None, Some(MsgChecksumGone))
    ELSE Result(Some("digest"), None)

\* get_node_content_checksum: the digest, or the error message.
get_node_content_checksum(env) ==
    IF env.cks = "gone" THEN Result(None, Some(MsgChecksumGone))
    ELSE IF env.cks = "unreadable" THEN Result(None, Some(MsgChecksumUnreadable))
    ELSE Result(Some("digest"), None)

\* process_dir_entry
process_dir_entry(dir_entry, checksum, env) ==
    LET got == get_node_infos(dir_entry, env)
    IN  IF got.raised # "" THEN got
        ELSE LET node_infos == got.node[1]
             IN  IF checksum # None /\ node_infos.type = "file"
                 THEN LET checksum_result == get_node_content_checksum(env)
                      IN  IF checksum_result.error_msg # None
                          THEN [got EXCEPT !.node = Some(
                                  [node_infos EXCEPT !.error_msgs =
                                      @ \o <<checksum_result.error_msg[1]>>])]
                          ELSE [got EXCEPT !.node = Some(
                                  [node_infos EXCEPT !.checksums =
                                      checksum_result.value])]
                 ELSE got

\* --------------------------------------------------------------------- CSV

\* In a CSV row a text is the sequence of its code points.  The code points
\* 1, 2 and 3 of the file names stand for letters.
Quote == 34
Comma == 44
Dot == 46
Space == 32

\* separator.join(texts)
RECURSIVE Join(_, _)
Join(separator, texts) ==
    IF texts = <<>> THEN <<>>
    ELSE IF Len(texts) = 1 THEN texts[1]
    ELSE texts[1] \o separator \o Join(separator, Tail(texts))

\* str(n) for an int n >= 0.
RECURSIVE IntStr(_)
IntStr(n) ==
    IF n < 10 THEN <<48 + n>> ELSE IntStr(n \div 10) \o <<48 + (n % 10)>>

\* The table csv_escape hands to str.translate(): its one key is the str
\* of one double quote, its value the str of two.
EscapeTable ==
    {[key |-> [type |-> "str", str |-> <<Quote>>], value |-> <<Quote, Quote>>]}

\* str.translate(table): each character is replaced by what the table holds
\* under its ordinal, an int, and kept when the table has no such key.
translate(string_value, table) ==
    Concat([i \in 1..Len(string_value) |->
        LET found == {e \in table : /\ e.key.type = "int"
                                    /\ e.key.int = string_value[i]}
        IN  IF found = {} THEN <<string_value[i]>>
            ELSE (CHOOSE e \in found : TRUE).value])

\* csv_escape
csv_escape(string_value) == translate(string_value, EscapeTable)

\* The values a cell is made from: None, a member of an Enum (by its name),
\* an int, float or bool (by its str()), or anything else (by its str()).
NoneCell == [kind |-> "None", text |-> <<>>]
EnumCell(name) == [kind |-> "Enum", text |-> name]
NumberCell(text) == [kind |-> "number", text |-> text]
OtherCell(text) == [kind |-> "other", text |-> text]

\* tocsv: one row of CSV from a list of values.
tocsv(row) ==
    Join(<<Comma>>,
         [i \in 1..Len(row) |->
            IF row[i].kind = "None" THEN <<>>
            ELSE IF row[i].kind = "Enum" THEN <<Quote>> \o row[i].text \o <<Quote>>
            ELSE IF row[i].kind = "number" THEN row[i].text
            ELSE LET item == csv_escape(row[i].text)
                 IN  IF Len(item) > 0 THEN <<Quote>> \o item \o <<Quote>>
                     ELSE <<>>])

\* A reader of one CSV row, as RFC 4180 and Python's csv.reader read it: the
\* cells read from text[i..], given the cell being read and where the
\* reader is in it ("start", "plain", "quoted", or "quote": just after a
\* quote met inside a quoted cell).
RECURSIVE ReadCsv(_, _, _, _)
ReadCsv(text, i, cell, where) ==
    IF i > Len(text) THEN <<cell>>
    ELSE LET c == text[i]
         IN  IF where = "quoted"
             THEN IF c = Quote THEN ReadCsv(text, i + 1, cell, "quote")
                  ELSE ReadCsv(text, i + 1, Append(cell, c), "quoted")
             ELSE IF c = Comma
             THEN <<cell>> \o ReadCsv(text, i + 1, <<>>, "start")
             ELSE IF c = Quote /\ where = "start"
             THEN ReadCsv(text, i + 1, cell, "quoted")
             ELSE IF c = Quote /\ where = "quote"
             THEN ReadCsv(text, i + 1, Append(cell, c), "quoted")
             ELSE ReadCsv(text, i + 1, Append(cell, c), "plain")

ParseCsvRow(text) == ReadCsv(text, 1, <<>>, "start")

\* The name of a member of NodeType or SymLinkType, as a text.
EnumName(member) ==
    CASE member = "directory" -> <<100, 105, 114, 101, 99, 116, 111, 114, 121>>
      [] member = "file"      -> <<102, 105, 108, 101>>
      [] member = "symlink"   -> <<115, 121, 109, 108, 105, 110, 107>>
      [] member = "unknown"   -> <<117, 110, 107, 110, 111, 119, 110>>
      [] member = "excluded"  -> <<101, 120, 99, 108, 117, 100, 101, 100>>
      [] member = "broken"    -> <<98, 114, 111, 107, 101, 110>>
      [] member = "circular"  -> <<99, 105, 114, 99, 117, 108, 97, 114>>

\* The text "ERROR" of the third cell.
ErrorText == <<69, 82, 82, 79, 82>>

\* str(path.relative_to(other)), for other a path above path or path itself.
RelativeStr(path, other) ==
    IF path = other THEN <<Dot>>
    ELSE Join(<<Slash>>, SubSeq(path, Len(other) + 1, Len(path)))

\* NodeInfos.get_path
get_path(node_infos, relative_to) ==
    IF relative_to = None THEN PathStr(node_infos.path)
    ELSE IF IsPrefix(relative_to[1], node_infos.path)
    THEN RelativeStr(node_infos.path, relative_to[1])
    ELSE \* ValueError caught: the path is kept as it is
         PathStr(node_infos.path)

\* NodeInfos.get_symlink_value: the text, if any.
get_symlink_value(node_infos, relative_to) ==
    IF node_infos.symlink_value = None THEN None
    ELSE IF relative_to = None THEN Some(PathStr(node_infos.symlink_value[1]))
    ELSE IF IsPrefix(relative_to[1], node_infos.symlink_value[1])
    THEN Some(RelativeStr(node_infos.symlink_value[1], relative_to[1]))
    ELSE \* ValueError caught: None is returned
         None

\* NodeInfos.size_value: a Size object is truthy whatever its value.
size_value(node_infos) == node_infos.size

\* Size.UNITS: "b", "Kb", "Mb", "Gb", "Tb".
UNITS == << <<98>>, <<75, 98>>, <<77, 98>>, <<71, 98>>, <<84, 98>> >>

\* The divisor of Size.convert_to.  A size is written here in base 1024, as
\* the sequence of its digits from the lowest: the dividend of the loop
\* after exp divisions is the number of the digits above the first exp ones,
\* and what the divisions cut off is the fraction of those exp digits (a
\* float holds both exactly for a size under 2^53).
Divisor == 1024

\* The digits of a size given as a number under 1024 * 1024.
Digits(n) == <<n % Divisor, n \div Divisor>>

\* The number whose digits are given.
RECURSIVE Number(_)
Number(digits) ==
    IF digits = <<>> THEN 0 ELSE Head(digits) + Divisor * Number(Tail(digits))

\* A test that lets a size equal to the divisor through.
Below_or_equal(digits, exp) ==
    /\ \A i \in (exp + 3)..Len(digits) : digits[i] = 0
    /\ \/ Len(digits) < exp + 2
       \/ digits[exp + 2] = 0
       \/ digits[exp + 2] = 1 /\ \A i \in 1..(exp + 1) : digits[i] = 0

\* The size divided exp times is below the divisor: it has one digit.
Below(digits, exp) == \A i \in (exp + 2)..Len(digits) : digits[i] = 0

\* Ten times the fraction of the given digits: its whole part (carry), the
\* first digit of what is left (top) and whether anything is left below it.
RECURSIVE TenTimes(_)
TenTimes(digits) ==
    IF digits = <<>> THEN [carry |-> 0, top |-> 0, low |-> FALSE]
    ELSE LET below == TenTimes(SubSeq(digits, 1, Len(digits) - 1))
             x == 10 * digits[Len(digits)] + below.carry
         IN  [carry |-> x \div Divisor, top |-> x % Divisor,
              low |-> below.low \/ below.top # 0]

\* f"{_size:.1f}" for the size of the given digits divided exp times: the
\* tenths are rounded to the nearest, a tie going to the even tenth.
OneDecimal(digits, exp) ==
    LET whole == Number(SubSeq(digits, exp + 1, Len(digits)))
        ten == TenTimes(SubSeq(digits, 1, exp))
        up == \/ 2 * ten.top > Divisor
              \/ 2 * ten.top = Divisor /\ (ten.low \/ ten.carry % 2 = 1)
        tenths == 10 * whole + ten.carry + (IF up THEN 1 ELSE 0)
    IN  IntStr(tenths \div 10) \o <<Dot>> \o IntStr(tenths % 10)

\* Size.convert_to, lines 488-494: the loop on the units above "b".
RECURSIVE ScaleFrom(_, _)
ScaleFrom(digits, exp) ==
    IF exp = Len(UNITS) - 1 \/ Below(digits, exp)
    THEN OneDecimal(digits, exp) \o <<Space>> \o UNITS[exp + 1]
    ELSE ScaleFrom(digits, exp + 1)

\* Size.convert_to(None) of a size in bytes.
convert_to(digits) ==
    IF Below(digits, 0)
    THEN IntStr(digits[1]) \o <<Space>> \o UNITS[1]
    ELSE ScaleFrom(digits, 1)

\* NodeInfos.size_value_converted_to
size_value_converted_to(node_infos) ==
    IF node_infos.size = None THEN None
    ELSE Some(convert_to(Digits(node_infos.size[1])))

\* NodeInfos.?time_as_timestamp: str() of the float of a whole number of
\* seconds.
as_timestamp(time) ==
    IF time = None THEN None ELSE Some(IntStr(time[1]) \o <<Dot, 48>>)

\* NodeInfos.?time_as_isoformat: the date and time of day as a text, stood
\* for here by the letter T and the seconds since the Epoch.
as_isoformat(time) ==
    IF time = None THEN None ELSE Some(<<84>> \o IntStr(time[1]))

\* str() of the list of error messages, none of which holds a quote or a
\* backslash: their repr() between brackets.
ListStr(error_msgs) ==
    <<91>> \o Join(<<Comma, Space>>,
                   [i \in 1..Len(error_msgs) |->
                       <<39>> \o error_msgs[i] \o <<39>>]) \o <<93>>

\* A cell from an optional int, an optional text and an optional member of
\* an Enum.
IntCell(value) == IF value = None THEN NoneCell ELSE NumberCell(IntStr(value[1]))
FloatCell(text) == IF text = None THEN NoneCell ELSE NumberCell(text[1])
StrCell(text) == IF text = None THEN NoneCell ELSE OtherCell(text[1])
MemberCell(member) ==
    IF member = None THEN NoneCell ELSE EnumCell(EnumName(member[1]))

\* NodeInfos.tocsv: the list of items handed to tocsv.
RowItems(node_infos, pathes_relative_to) ==
    <<
        OtherCell(get_path(node_infos, pathes_relative_to)),
        EnumCell(EnumName(node_infos.type)),
        IF ~has_error(node_infos) THEN NoneCell ELSE OtherCell(ErrorText),
        IntCell(node_infos.links_nb),
        IntCell(size_value(node_infos)),
        StrCell(size_value_converted_to(node_infos)),
        StrCell(node_infos.perms),
        StrCell(node_infos.user_owner),
        StrCell(node_infos.group_owner),
        StrCell(node_infos.security),
        FloatCell(as_timestamp(node_infos.atime)),
        StrCell(as_isoformat(node_infos.atime)),
        FloatCell(as_timestamp(node_infos.mtime)),
        StrCell(as_isoformat(node_infos.mtime)),
        FloatCell(as_timestamp(node_infos.ctime)),
        StrCell(as_isoformat(node_infos.ctime)),
        StrCell(get_symlink_value(node_infos, pathes_relative_to)),
        MemberCell(node_infos.symlink_type),
        StrCell(IF node_infos.resolved_symlink_path = None THEN None
                ELSE Some(PathStr(node_infos.resolved_symlink_path[1]))),
        StrCell(node_infos.checksums),
        OtherCell(ListStr(node_infos.error_msgs)),
        StrCell(node_infos.ls_output)
    >>

\* NodeInfos.tocsv
NodeInfos_tocsv(node_infos, pathes_relative_to) ==
    tocsv(RowItems(node_infos, pathes_relative_to))

\* ------------------------------------------------------------ run options

\* The two root paths given on the command line: "/a" and "/b".
RootA == << <<1>> >>
RootB == << <<2>> >>

\* AppRunInfos.script_path: the script lies in the second root, "/b/a".
ScriptPath == << <<2>>, <<1>> >>

\* The --output file: "/b/ab", in the second root.
OutputPath == << <<2>>, <<1, 2>> >>

\* The --exclude list: "/a/b/", a directory pattern.
ExplicitExcluded == << Pattern(<< <<1>>, <<2>> >>, TRUE) >>

\* The --log file: "/b/b", in the second root.
LogfilePath == << <<2>>, <<2>> >>

\* prepare_options: the Options a run starts with.
prepare_options(pathes, explicit, output_path, logfile_path, checksum) ==
    [walked_pathes |-> pathes,
     pathes_relative_to |-> None,
     output_path   |-> output_path,
     logfile_path  |-> logfile_path,
     checksum      |-> checksum,
     excluded      |-> extend_excluded(explicit, ScriptPath, output_path,
                                       logfile_path)]

\* ----------------------------------------------------------- environment

\* The file system and commands a run meets: how many entries its
\* directories hold in all, their names and kinds, and whether a system call
\* or `ls` may fail or answer oddly.
FullWorld ==
    [max_entries |-> MaxEntries, names |-> Names, kinds |-> OsKinds,
     faults |-> TRUE, signals |-> FALSE]

\* Four names, so that one directory can hold an entry of four buckets.
QuietWorld ==
    [max_entries |-> MaxTreeEntries, names |-> Names \cup {<<3>>},
     kinds |-> {"dir", "file", "symlink", "other"}, faults |-> FALSE, signals |-> FALSE]

\* Three entries, so that the script, the output and the log are all met.
SelfWorld ==
    [max_entries |-> MaxSelfEntries, names |-> Names, kinds |-> OsKinds,
     faults |-> FALSE, signals |-> FALSE]

\* A quiet file system, and a stop signal that may come at any time.
StopWorld ==
    [max_entries |-> MaxStopEntries, names |-> Names,
     kinds |-> {"dir", "file", "symlink", "other"}, faults |-> FALSE,
     signals |-> TRUE]

DeepWorld ==
    [max_entries |-> MaxDeepEntries, names |-> Names,
     kinds |-> {"dir", "file", "other"}, faults |-> FALSE, signals |-> FALSE]

\* What os.scandir() may hand over for one directory when at most n further
\* entries exist: a name-to-kind map of the entries, in any order.
Contents(w, n) ==
    UNION {[S -> w.kinds] : S \in {T \in SUBSET w.names : Cardinality(T) <= n}}

Orders(S) ==
    {o \in [1..Cardinality(S) -> S] : \A i, j \in DOMAIN o : i # j => o[i] # o[j]}

\* Values readlink() may return: the relative "a", which leads to no further
\* link, and the absolute "/b", the head of a chain of links ending at "/b/b".
RelativeValue == [absolute |-> FALSE, parts |-> << <<1>> >>]
AbsoluteValue == [absolute |-> TRUE,  parts |-> << <<2>> >>]
ChainEnd == << <<2>>, <<2>> >>

NoLink == [readlink |-> "ok", value |-> RelativeValue,
           chained |-> FALSE, final |-> ChainEnd,
           resolve |-> "ok", strict |-> "ok", probe |-> "dir"]

\* The answers of the OS to get_symlink_infos, one per path through it.
LinkAnswers(w) ==
    IF ~w.faults THEN {NoLink}
    ELSE
    {[NoLink EXCEPT !.readlink = r] : r \in {"perm", "oserr"}}
    \cup {[NoLink EXCEPT !.resolve = "loop"]}
    \cup {[NoLink EXCEPT !.value = v, !.chained = v.absolute, !.strict = x]
             : v \in {RelativeValue, AbsoluteValue}, x \in {"notfound", "loop"}}
    \cup {[NoLink EXCEPT !.value = v, !.chained = v.absolute, !.probe = t]
             : v \in {RelativeValue, AbsoluteValue},
               t \in {"symlink", "dir", "file", "other", "perm", "oserr"}}

\* One well-formed line of `ls -l -Q -Z --time-style=long-iso`, as the groups
\* of LS_OUTPUT_REGEX read it (the two numbers already through int()).
LsLine(p_type) ==
    [shape |-> "line", p_type |-> p_type, p_perms |-> "rwxr-xr-x",
     links_nb |-> 1, user_owner |-> "root", group_owner |-> "root",
     security |-> "?", size |-> 0]

\* The type character `ls` prints for a node of each kind.
LsChar(type_) ==
    CASE type_ = "file" -> "-"
      [] type_ = "directory" -> "d"
      [] type_ = "symlink" -> "l"
      [] OTHER -> "p"

\* The answers of run(ls_cmd): a failure, or an exit status 0 with no text,
\* with text the pattern does not match, or with a well-formed line, whose
\* type character may be another than the one of the classification.
LsAnswers(w, type_) ==
    IF ~w.faults THEN {[rc |-> "ok", stdout |-> LsLine(LsChar(type_))]}
    ELSE
    {[rc |-> "failed", stdout |-> [shape |-> "empty"]]}
    \cup {[rc |-> "ok", stdout |-> o] :
             o \in {[shape |-> "empty"], [shape |-> "garbage"]}
                   \cup {LsLine(c) : c \in {"-", "d", "l"}}}

\* The answers of getatime/getmtime/getctime: OSError, or a time.
TimeAnswers(w) == IF w.faults THEN {None, Some(5)} ELSE {Some(5)}

\* The answers met by get_node_content_checksum: lexists() false, open() or
\* read() raising OSError, or the content read.
ChecksumAnswers(w) == IF w.faults THEN {"gone", "unreadable", "ok"} ELSE {"ok"}

\* Everything the OS and `ls` may answer while one entry is processed.
Answers(w, dir_entry, checksum) ==
    {[exists |-> x, lnk |-> l, ls |-> o, times |-> t, cks |-> c] :
        x \in (IF w.faults THEN BOOLEAN ELSE {TRUE}),
        l \in (IF dir_entry.type = "symlink" THEN LinkAnswers(w) ELSE {NoLink}),
        o \in LsAnswers(w, dir_entry.type),
        t \in TimeAnswers(w),
        c \in (IF checksum # None /\ dir_entry.type = "file"
               THEN ChecksumAnswers(w) ELSE {"ok"})}

\* What becomes of one call of write_new_line on an output file: the line
\* is appended ("ok"); open() or write() raises OSError ("oserror"); or a
\* stop signal is handled while the call runs, after open() and before
\* write() ("stop_opened"), or after write() and before the file is closed
\* ("stop_written").  print() to stdout is taken not to fail.
WriteAnswers(w, output_path) ==
    {"ok"}
    \cup (IF output_path # None /\ w.faults THEN {"oserror"} ELSE {})
    \cup (IF output_path # None /\ w.signals
          THEN {"stop_opened", "stop_written"} ELSE {})

\* The answers of os.scandir(): whether the listing raised OSError.
ScandirAnswers(w) == IF w.faults THEN BOOLEAN ELSE {FALSE}

\* What DirEntry.new_entry_from_path finds of a root: its parent gone, its
\* parent unreadable, the root no longer in it, or the root, of some kind.
RootAnswers(w) ==
    IF w.faults THEN {"enoent", "oserror", "notfound"} \cup w.kinds ELSE w.kinds

\* ------------------------------------------------------------------ state

VARIABLES
    world,           \* the file system and commands the run meets
    options,         \* the Options of the run (read-only once prepared)
    pc,              \* where _main is: "header", "roots", "walking",
                     \* "root_sleep", or ended: "done" (exit 0), "exit1"
                     \* (app_exit(1)), "exit2" (app_exit(2) of the handler of
                     \* a stop signal), "crashed" (an exception nobody caught)
    root,            \* index in options.walked_pathes of the current root
    stack,           \* the frames of walk(), the innermost last
    emitted,         \* the records walk() has yielded, as <<path, type>>
    node,            \* the NodeInfos built by the step just taken, if any
    symlink_result,  \* what get_symlink_infos gave to the step just taken
    os_answers,      \* what the OS and `ls` answered to the step just taken
    output,          \* the lines appended to the output sink
    listed,          \* every entry os.scandir() has handed to _scandir
    ls_calls,        \* the paths `ls` was run on
    readlink_calls,  \* the paths readlink() was called on
    read_calls,      \* the paths opened to read their content
    scandir_calls,   \* the directories _scandir listed
    probe_calls,     \* the paths whose os.DirEntry was asked for its type
    os_listing,      \* what os.scandir() gave to the _scandir just run, if any:
                     \* the names in the order handed over, and whether it raised;
                     \* or how new_entry_from_path just failed to find a root
    raised           \* the exception that ended the run, "" if none

vars == <<world, options, pc, root, stack, emitted, node, symlink_result,
          os_answers,
          output, listed, ls_calls, readlink_calls, read_calls, scandir_calls,
          probe_calls, os_listing, raised>>

\* The frame of a call of walk(dir_entry, options) before its first step:
\* the five buckets of _scandir, how far each loop of walk() has gone, and
\* whether walk() stands at the sleep() that follows a yield.
Frame(dir_entry) ==
    [dir_entry |-> dir_entry, scanned |-> FALSE,
     directories |-> <<>>, files |-> <<>>, links |-> <<>>,
     excluded |-> <<>>, unknowns |-> <<>>,
     nd |-> 0, nf |-> 0, ne |-> 0, nu |-> 0, nr |-> 0,
     sleeping |-> FALSE]

Top == stack[Len(stack)]
ReplaceTop(frame) == [stack EXCEPT ![Len(stack)] = frame]

\* A line of the output: the header or the row of a node, ended by its line
\* feed or not.
HeaderRow == [header |-> TRUE, path |-> <<>>, ended |-> TRUE]
Row(node_infos) == [header |-> FALSE, path |-> node_infos.path, ended |-> TRUE]

\* A write_new_line that writes the content and the line feed one after the
\* other into a file it leaves for the interpreter to close.
write_new_line_two_writes(written, row, answer) ==
    IF answer = "ok" THEN Append(written, row)
    ELSE IF answer = "stop_written" THEN Append(written, [row EXCEPT !.ended = FALSE])
    ELSE written

\* write_new_line: the lines of the output file after a call.  content and
\* its line feed are given to one write(), and the with statement closes
\* the file, so flushes the line, also when the handler of a stop signal
\* raises SystemExit inside it.
write_new_line(written, row, answer) ==
    IF answer \in {"ok", "stop_written"} THEN Append(written, row) ELSE written

\* Where _main is after a write: it goes on, or app_exit(1) ended the run
\* for a failed write, or stop_signal_handler ended it with app_exit(2).
after_write(answer, pc_ok) ==
    IF answer = "ok" THEN pc_ok
    ELSE IF answer = "oserror" THEN "exit1"
    ELSE "exit2"

\* The state a program starts in, with one of the given options and nothing
\* done yet.
Started(at, some_options) ==
    /\ options \in some_options
    /\ pc = at
    /\ root = 1
    /\ stack = <<>>
    /\ emitted = <<>>
    /\ node = None
    /\ symlink_result = None
    /\ os_answers = None
    /\ output = <<>>
    /\ listed = {}
    /\ ls_calls = <<>>
    /\ readlink_calls = <<>>
    /\ read_calls = <<>>
    /\ scandir_calls = <<>>
    /\ probe_calls = {}
    /\ os_listing = None
    /\ raised = ""

InitRun(pathes) ==
    Started("header",
            {prepare_options(pathes, ExplicitExcluded, Some(OutputPath), None, c) :
                c \in {None, Some("md5")}})

\* ls2csv /a /b, met by any answer.
Init == world = FullWorld /\ InitRun(<<RootA, RootB>>)

\* ls2csv /a, met by nominal answers.
InitTree == world = QuietWorld /\ InitRun(<<RootA>>)

InitDeep == world = DeepWorld /\ InitRun(<<RootA>>)

\* ls2csv /b, with or without --exclude, --output, --log and --checksum: a
\* walk of the directory that holds the script, the output and the log.
InitSelf ==
    /\ world = SelfWorld
    /\ Started("header",
               {prepare_options(<<RootB>>, e, o, l, c) :
                    e \in {<<>>, ExplicitExcluded},
                    o \in {None, Some(OutputPath)},
                    l \in {None, Some(LogfilePath)},
                    c \in {None, Some("md5")}})

\* ---------------------------------------------------------------- actions

\* _main, lines 1857-1861: the header row is written first; a failed write
\* ends the run with status 1.
WriteHeader ==
    /\ pc = "header"
    /\ \E wok \in WriteAnswers(world, options.output_path) :
          /\ output' = write_new_line(output, HeaderRow, wok)
          /\ pc' = after_write(wok, "roots")
    /\ node' = None /\ symlink_result' = None /\ os_answers' = None /\ os_listing' = None
    /\ UNCHANGED <<world, options, root, stack, emitted, listed, ls_calls,
                   readlink_calls, read_calls, scandir_calls, probe_calls, raised>>

\* A caller that does not look at the result of write_new_line.
Processed_write_unchecked(dir_entry, env, wok, yielded, stack_ok, pc_ok) ==
    LET got == process_dir_entry(dir_entry, options.checksum, env)
        is_link == dir_entry.type = "symlink"
        is_read == /\ options.checksum # None
                   /\ dir_entry.type = "file"
                   /\ env.cks # "gone"
    IN  /\ os_answers' = Some(env)
        /\ symlink_result' = IF is_link
                             THEN Some(get_symlink_infos(dir_entry, env.lnk))
                             ELSE None
        /\ readlink_calls' = IF is_link THEN Append(readlink_calls, dir_entry.path)
                                        ELSE readlink_calls
        /\ os_listing' = None
        /\ UNCHANGED <<world, options, root, listed, scandir_calls>>
        /\ IF got.raised # ""
           THEN /\ pc' = "crashed"
                /\ raised' = got.raised
                /\ node' = None
                /\ UNCHANGED <<stack, emitted, output, ls_calls, read_calls>>
           ELSE /\ node' = got.node
                /\ ls_calls' = Append(ls_calls, dir_entry.path)
                /\ read_calls' = IF is_read THEN Append(read_calls, dir_entry.path)
                                            ELSE read_calls
                /\ emitted' = IF yielded
                              THEN Append(emitted, [path |-> dir_entry.path,
                                                    type |-> dir_entry.type])
                              ELSE emitted
                /\ raised' = raised
                /\ output' = write_new_line(output, Row(got.node[1]), wok)
                /\ stack' = IF wok \in {"ok", "oserror"} THEN stack_ok ELSE stack
                /\ pc' = IF wok = "oserror" THEN pc_ok ELSE after_write(wok, pc_ok)

\* process_dir_entry on one entry, then what the caller does with the record:
\* walk() yields it (yielded) and _main writes its row; a failed write ends
\* the run with status 1, an exception leaving process_dir_entry ends it with
\* a traceback.  stack_ok and pc_ok are the state the caller is in once the
\* row is written.
Processed(dir_entry, env, wok, yielded, stack_ok, pc_ok) ==
    LET got == process_dir_entry(dir_entry, options.checksum, env)
        is_link == dir_entry.type = "symlink"
        is_read == /\ options.checksum # None
                   /\ dir_entry.type = "file"
                   /\ env.cks # "gone"
    IN  /\ os_answers' = Some(env)
        /\ symlink_result' = IF is_link
                             THEN Some(get_symlink_infos(dir_entry, env.lnk))
                             ELSE None
        /\ readlink_calls' = IF is_link THEN Append(readlink_calls, dir_entry.path)
                                        ELSE readlink_calls
        /\ os_listing' = None
        /\ UNCHANGED <<world, options, root, listed, scandir_calls>>
        /\ IF got.raised # ""
           THEN /\ pc' = "crashed"
                /\ raised' = got.raised
                /\ node' = None
                /\ UNCHANGED <<stack, emitted, output, ls_calls, read_calls>>
           ELSE /\ node' = got.node
                /\ ls_calls' = Append(ls_calls, dir_entry.path)
                /\ read_calls' = IF is_read THEN Append(read_calls, dir_entry.path)
                                            ELSE read_calls
                /\ emitted' = IF yielded
                              THEN Append(emitted, [path |-> dir_entry.path,
                                                    type |-> dir_entry.type])
                              ELSE emitted
                /\ raised' = raised
                /\ output' = write_new_line(output, Row(got.node[1]), wok)
                /\ stack' = IF wok = "ok" THEN stack_ok ELSE stack
                /\ pc' = after_write(wok, pc_ok)

\* A new_entry_from_path that never finds the root among the entries of
\* its parent.
new_entry_from_path_never(found) == "FileNotFoundError"

\* DirEntry.new_entry_from_path: the exception it ends with, if any, when
\* os.scandir() of the parent of the root answers `found`.  A parent that is
\* gone makes scandir raise FileNotFoundError, a root that is not among the
\* entries makes the method raise it, another failure of scandir is an
\* OSError raised again.
new_entry_from_path(found) ==
    IF found \in {"enoent", "notfound"} THEN "FileNotFoundError"
    ELSE IF found = "oserror" THEN "OSError"
    ELSE ""

\* A _main without its except clause around new_entry_from_path.
caught_for_root_nothing(exception) == FALSE

\* _main, lines 1869-1873: the exceptions of new_entry_from_path that are
\* caught, and followed by `continue`.
caught_for_root(exception) == exception = "FileNotFoundError"

\* _main, lines 1868-1896: one turn of the loop on the root paths.
\* DirEntry.new_entry_from_path lists the parent of the root: a parent that
\* is gone ("enoent") or a root no longer in it ("notfound") raise
\* FileNotFoundError, which _main logs before it goes on; another OSError
\* is raised again and caught by nobody.  An excluded root is skipped, a
\* directory is walked, any other root is processed and written at once.
NextRoot ==
    /\ pc = "roots"
    /\ root <= Len(options.walked_pathes)
    /\ LET path == options.walked_pathes[root]
           parent_dirpath == SubSeq(path, 1, Len(path) - 1)
           name == path[Len(path)]
           Silent == node' = None /\ symlink_result' = None /\ os_answers' = None
           Quiet == Silent /\ os_listing' = None
           Skip == /\ root' = root + 1
                   /\ UNCHANGED <<world, options, pc, stack, emitted, output,
                                  listed, ls_calls, readlink_calls, read_calls,
                                  scandir_calls, raised>>
       IN  \E found \in RootAnswers(world) :
             IF new_entry_from_path(found) # ""
             THEN /\ os_listing' = Some([names |-> <<>>,
                                         failed |-> found # "notfound",
                                         error |-> new_entry_from_path(found)])
                  /\ Silent
                  /\ UNCHANGED probe_calls
                  /\ IF caught_for_root(new_entry_from_path(found))
                     THEN Skip
                     ELSE /\ pc' = "crashed"
                          /\ raised' = new_entry_from_path(found)
                          /\ UNCHANGED <<world, options, root, stack, emitted,
                                         output, listed, ls_calls,
                                         readlink_calls, read_calls,
                                         scandir_calls>>
             ELSE LET entry == [name |-> name, kind |-> found]
                      dir_entry == DirEntry(options.excluded, parent_dirpath, entry)
                  IN  /\ probe_calls' = probe_calls \cup
                            type_probes(options.excluded, parent_dirpath, entry)
                      /\ IF dir_entry.type = "excluded" THEN Skip /\ Quiet
                         ELSE IF dir_entry.type # "directory"
                         THEN \E env \in Answers(world, dir_entry, options.checksum),
                                 wok \in WriteAnswers(world, options.output_path) :
                                   Processed(dir_entry, env, wok, FALSE,
                                             stack, "root_sleep")
                         ELSE /\ stack' = <<Frame(dir_entry)>>
                              /\ pc' = "walking"
                              /\ Quiet
                              /\ UNCHANGED <<world, options, root, emitted,
                                             output, listed, ls_calls,
                                             readlink_calls, read_calls,
                                             scandir_calls, raised>>

\* _main, line 1898: the sleep() that ends the turn of a root that was
\* processed or walked.
SleepRoot ==
    /\ pc = "root_sleep"
    /\ pc' = "roots"
    /\ root' = root + 1
    /\ node' = None /\ symlink_result' = None /\ os_answers' = None /\ os_listing' = None
    /\ UNCHANGED <<world, options, stack, emitted, output, listed, ls_calls,
                   readlink_calls, read_calls, scandir_calls, probe_calls, raised>>

\* main, lines 1925-1926: every root was handled, the run exits with 0.
Finish ==
    /\ pc = "roots"
    /\ root > Len(options.walked_pathes)
    /\ pc' = "done"
    /\ node' = None /\ symlink_result' = None /\ os_answers' = None /\ os_listing' = None
    /\ UNCHANGED <<world, options, root, stack, emitted, output, listed,
                   ls_calls, readlink_calls, read_calls, scandir_calls, probe_calls, raised>>

\* A _scandir without its except clause, met by a listing that fails at
\* once: the OSError leaves walk() and _main.
ScanDir_raising ==
    /\ pc = "walking"
    /\ ~Top.scanned
    /\ pc' = "crashed" /\ raised' = "OSError"
    /\ os_listing' = Some([names |-> <<>>, failed |-> TRUE])
    /\ scandir_calls' = Append(scandir_calls, Top.dir_entry.path)
    /\ node' = None /\ symlink_result' = None /\ os_answers' = None
    /\ UNCHANGED <<world, options, root, stack, emitted, output, listed,
                   ls_calls, readlink_calls, read_calls, probe_calls>>

\* walk, lines 1449-1463: the first step of a call of walk().  An excluded
\* directory is not scanned (the log line there formats the undefined name
\* dir_path); any other is listed by _scandir.  The OS hands over entries in
\* an order of its own, until the directory ends or the listing raises
\* OSError: content holds the entries handed over.
ScanDir ==
    /\ pc = "walking"
    /\ ~Top.scanned
    /\ node' = None /\ symlink_result' = None /\ os_answers' = None
    /\ UNCHANGED <<world, options, root, emitted, output, ls_calls,
                   readlink_calls, read_calls>>
    /\ IF Top.dir_entry.type = "excluded"
       THEN /\ pc' = "crashed" /\ raised' = "NameError"
            /\ os_listing' = None
            /\ UNCHANGED <<stack, listed, scandir_calls, probe_calls>>
       ELSE \E content \in Contents(world, world.max_entries - Cardinality(listed)) :
            \E order \in Orders(DOMAIN content) :
            \E failed \in ScandirAnswers(world) :
              LET parent_dirpath == Top.dir_entry.path
                  os_entries == [i \in 1..Len(order) |->
                                    [name |-> order[i], kind |-> content[order[i]]]]
                  buckets == _scandir(options.excluded, parent_dirpath, os_entries)
              IN  /\ stack' = ReplaceTop(
                        [Top EXCEPT !.scanned = TRUE,
                                    !.directories = buckets.directories,
                                    !.files = buckets.files,
                                    !.links = buckets.links,
                                    !.excluded = buckets.excluded,
                                    !.unknowns = buckets.unknowns])
                  /\ listed' = listed \cup
                        {[path |-> parent_dirpath \o <<os_entries[i].name>>,
                          kind |-> os_entries[i].kind] : i \in 1..Len(order)}
                  /\ scandir_calls' = Append(scandir_calls, parent_dirpath)
                  /\ probe_calls' = probe_calls \cup UNION
                        {type_probes(options.excluded, parent_dirpath, os_entries[i])
                            : i \in 1..Len(order)}
                  /\ os_listing' = Some([names |-> order, failed |-> failed])
                  /\ UNCHANGED <<pc, raised>>

\* walk, lines 1465-1470: the next subdirectory is processed, kept for the
\* descent and yielded.
VisitDirectory ==
    /\ pc = "walking"
    /\ UNCHANGED probe_calls
    /\ Top.scanned /\ ~Top.sleeping
    /\ Top.nd < Len(Top.directories)
    /\ LET dir_entry == Top.directories[Top.nd + 1]
       IN  \E env \in Answers(world, dir_entry, options.checksum),
              wok \in WriteAnswers(world, options.output_path) :
                Processed(dir_entry, env, wok, TRUE,
                          ReplaceTop([Top EXCEPT !.nd = @ + 1, !.sleeping = TRUE]),
                          "walking")

\* walk, lines 1473-1475: the next regular file, then the next symlink, is
\* processed and yielded.
VisitFileOrLink ==
    /\ pc = "walking"
    /\ UNCHANGED probe_calls
    /\ Top.scanned /\ ~Top.sleeping
    /\ Top.nd = Len(Top.directories)
    /\ Top.nf < Len(Top.files \o Top.links)
    /\ LET node_entry == (Top.files \o Top.links)[Top.nf + 1]
       IN  \E env \in Answers(world, node_entry, options.checksum),
              wok \in WriteAnswers(world, options.output_path) :
                Processed(node_entry, env, wok, TRUE,
                          ReplaceTop([Top EXCEPT !.nf = @ + 1, !.sleeping = TRUE]),
                          "walking")

\* walk, lines 1478-1483: the next excluded entry is yielded as a record of
\* its path and type alone.
YieldExcluded ==
    /\ pc = "walking"
    /\ Top.scanned /\ ~Top.sleeping
    /\ Top.nd = Len(Top.directories)
    /\ Top.nf = Len(Top.files \o Top.links)
    /\ Top.ne < Len(Top.excluded)
    /\ LET dir_entry == Top.excluded[Top.ne + 1]
           node_infos == NodeInfos(dir_entry.path, dir_entry.type, NoInfos)
       IN  /\ node' = Some(node_infos)
           /\ emitted' = Append(emitted, [path |-> dir_entry.path,
                                          type |-> dir_entry.type])
           /\ \E wok \in WriteAnswers(world, options.output_path) :
                /\ output' = write_new_line(output, Row(node_infos), wok)
                /\ stack' = IF wok = "ok"
                            THEN ReplaceTop([Top EXCEPT !.ne = @ + 1])
                            ELSE stack
                /\ pc' = after_write(wok, pc)
    /\ symlink_result' = None /\ os_answers' = None /\ os_listing' = None
    /\ UNCHANGED <<world, options, root, listed, ls_calls, readlink_calls,
                   read_calls, scandir_calls, probe_calls, raised>>

\* A walk() whose loop on the unknowns does not wait for the loops before it.
VisitUnknown_early ==
    /\ pc = "walking"
    /\ UNCHANGED probe_calls
    /\ Top.scanned /\ ~Top.sleeping
    /\ Top.nu < Len(Top.unknowns)
    /\ LET dir_entry == Top.unknowns[Top.nu + 1]
       IN  \E env \in Answers(world, dir_entry, options.checksum),
              wok \in WriteAnswers(world, options.output_path) :
                Processed(dir_entry, env, wok, TRUE,
                          ReplaceTop([Top EXCEPT !.nu = @ + 1, !.sleeping = TRUE]),
                          "walking")

\* walk, lines 1485-1491: the next entry of unknown type is processed and
\* yielded.
VisitUnknown ==
    /\ pc = "walking"
    /\ UNCHANGED probe_calls
    /\ Top.scanned /\ ~Top.sleeping
    /\ Top.nd = Len(Top.directories)
    /\ Top.nf = Len(Top.files \o Top.links)
    /\ Top.ne = Len(Top.excluded)
    /\ Top.nu < Len(Top.unknowns)
    /\ LET dir_entry == Top.unknowns[Top.nu + 1]
       IN  \E env \in Answers(world, dir_entry, options.checksum),
              wok \in WriteAnswers(world, options.output_path) :
                Processed(dir_entry, env, wok, TRUE,
                          ReplaceTop([Top EXCEPT !.nu = @ + 1, !.sleeping = TRUE]),
                          "walking")

\* walk, lines 1471, 1476 and 1492: asked for its next record, walk() first
\* runs the sleep() that follows the yield of a processed entry.
Sleep ==
    /\ pc = "walking"
    /\ Top.sleeping
    /\ stack' = ReplaceTop([Top EXCEPT !.sleeping = FALSE])
    /\ node' = None /\ symlink_result' = None /\ os_answers' = None /\ os_listing' = None
    /\ UNCHANGED <<world, options, pc, root, emitted, output, listed, ls_calls,
                   readlink_calls, read_calls, scandir_calls, probe_calls, raised>>

AllVisited(frame) ==
    /\ frame.scanned /\ ~frame.sleeping
    /\ frame.nd = Len(frame.directories)
    /\ frame.nf = Len(frame.files \o frame.links)
    /\ frame.ne = Len(frame.excluded)
    /\ frame.nu = Len(frame.unknowns)

\* A walk() that puts each subdirectory at the head of subdir_entries.
subdir_entries_prepended(frame) ==
    [i \in 1..frame.nd |-> frame.directories[frame.nd + 1 - i]]

\* subdir_entries of walk(): the subdirectories processed so far, in order.
subdir_entries(frame) == SubSeq(frame.directories, 1, frame.nd)

\* walk, lines 1494-1496: walk() is called on the next subdirectory.
Descend ==
    /\ pc = "walking"
    /\ AllVisited(Top)
    /\ Top.nr < Len(subdir_entries(Top))
    /\ stack' = ReplaceTop([Top EXCEPT !.nr = @ + 1])
                   \o <<Frame(subdir_entries(Top)[Top.nr + 1])>>
    /\ node' = None /\ symlink_result' = None /\ os_answers' = None /\ os_listing' = None
    /\ UNCHANGED <<world, options, pc, root, emitted, output, listed, ls_calls,
                   readlink_calls, read_calls, scandir_calls, probe_calls, raised>>

\* walk's end: the call returns to the walk() that made it, or to _main.
Return ==
    /\ pc = "walking"
    /\ AllVisited(Top)
    /\ Top.nr = Len(subdir_entries(Top))
    /\ stack' = SubSeq(stack, 1, Len(stack) - 1)
    /\ pc' = IF Len(stack) = 1 THEN "root_sleep" ELSE pc
    /\ node' = None /\ symlink_result' = None /\ os_answers' = None /\ os_listing' = None
    /\ UNCHANGED <<world, options, root, emitted, output, listed, ls_calls,
                   readlink_calls, read_calls, scandir_calls, probe_calls, raised>>

Next ==
    \/ WriteHeader
    \/ NextRoot
    \/ SleepRoot
    \/ Finish
    \/ ScanDir
    \/ VisitDirectory
    \/ VisitFileOrLink
    \/ YieldExcluded
    \/ VisitUnknown
    \/ Sleep
    \/ Descend
    \/ Return

\* Any file system of at most MaxEntries entries, any answer.
Spec == Init /\ [][Next]_vars

\* A quiet file system of directories, symlinks to directories, files and
\* other nodes.
MaxLinkEntries == 3
LinkWorld ==
    [max_entries |-> MaxLinkEntries, names |-> Names,
     kinds |-> {"dir", "file", "symlink", "other"}, faults |-> FALSE,
     signals |-> FALSE]

InitLinks == world = LinkWorld /\ InitRun(<<RootA>>)

\* ls2csv /a, met by nominal answers, and run to its end: the program is
\* sequential and none of its steps waits for another, sleep() returns.
SpecLinksFair == InitLinks /\ [][Next]_vars /\ WF_vars(Next)

\* A quiet file system under three roots: "/a", "/c" and "/b".
MaxRootEntries == 2
RootC == << <<3>> >>
RootsWorld ==
    [max_entries |-> MaxRootEntries, names |-> Names,
     kinds |-> {"dir", "file", "symlink", "other"}, faults |-> FALSE,
     signals |-> FALSE]

\* ls2csv --exclude /c /a /c /b, met by nominal answers.
InitRoots ==
    /\ world = RootsWorld
    /\ Started("header",
               {prepare_options(<<RootA, RootC, RootB>>, <<Pattern(RootC, FALSE)>>,
                                Some(OutputPath), None, c) :
                    c \in {None, Some("md5")}})

SpecRoots == InitRoots /\ [][Next]_vars

\* ------------------------------------------------- one record, one CSV row

\* Texts a string field may hold: a plain one, one with a double quote, one
\* with a quote, a comma and a quote.
FieldTexts == {<<1>>, <<1, Quote, 2>>, <<1, Quote, Comma, Quote, 2>>}

\* The line of `ls -Q`, which puts the name between double quotes.
QuotedLsLine == <<1, Space, Quote, 2, Quote>>

\* Paths of the records and of their link targets: "/a/a", "/a/b", "/b".
RowPathes == {<< <<1>>, <<1>> >>, << <<1>>, <<2>> >>, RootB}

\* The values a record may be built from, obtained (zero included) or not.
RowFields ==
  {kw \in
    {[NoInfos EXCEPT !.links_nb = l, !.size = z, !.security = s,
                     !.atime = t, !.mtime = m, !.ctime = m,
                     !.symlink_value = v, !.resolved_symlink_path = r,
                     !.symlink_type = IF v = None THEN None ELSE Some("file"),
                     !.ls_output = o] :
        l \in {None, Some(0), Some(1)}, z \in {None, Some(0), Some(12)},
        s \in {None} \cup {Some(x) : x \in FieldTexts},
        t \in {None, Some(0), Some(5)}, m \in {None, Some(0), Some(5)},
        v \in {None} \cup {Some(x) : x \in RowPathes \ {<< <<1>>, <<1>> >>}},
        r \in {None} \cup {Some(x) : x \in RowPathes \ {<< <<1>>, <<1>> >>}},
        o \in {None, Some(QuotedLsLine)}} :
    kw.symlink_value = None => kw.resolved_symlink_path = None}

\* ls2csv --pathes-relative-to /a, or without the option.
InitCsv ==
    /\ world = QuietWorld
    /\ Started("record",
               {[prepare_options(<<RootA, RootB>>, <<>>, None, None, None)
                    EXCEPT !.pathes_relative_to = r] :
                    r \in {None, Some(RootA)}})

\* get_node_infos, line 1296: the record of a node is built from what was
\* obtained about it.
BuildRecord ==
    /\ pc = "record"
    /\ \E path \in {<< <<1>>, <<1>> >>, RootB}, kw \in RowFields :
          /\ node' = Some(NodeInfos(path,
                           IF kw.symlink_value = None THEN "file" ELSE "symlink",
                           kw))
          /\ os_answers' = Some(kw)
    /\ pc' = "row"
    /\ UNCHANGED <<world, options, root, stack, emitted, symlink_result,
                   output, listed, ls_calls, readlink_calls, read_calls,
                   scandir_calls, probe_calls, os_listing, raised>>

\* _main, lines 1880 and 1889: the row of the record is written.
WriteRow ==
    /\ pc = "row"
    /\ output' = <<NodeInfos_tocsv(node[1], options.pathes_relative_to)>>
    /\ pc' = "written"
    /\ UNCHANGED <<world, options, root, stack, emitted, node, symlink_result,
                   os_answers, listed, ls_calls, readlink_calls, read_calls,
                   scandir_calls, probe_calls, os_listing, raised>>

NextCsv == BuildRecord \/ WriteRow

\* NodeInfos.tocsv applied to every record of RowFields.
SpecCsv == InitCsv /\ [][NextCsv]_vars

\* Any file system of at most MaxTreeEntries entries, nominal answers.
SpecTree == InitTree /\ [][Next]_vars

\* Any file system of at most MaxDeepEntries entries, none of them a
\* symlink, nominal answers.
SpecDeep == InitDeep /\ [][Next]_vars

SpecSelf == InitSelf /\ [][Next]_vars

\* stop_signal_handler, registered by _main (lines 1853-1855) for every
\* signal of SIGNALS before the header is written: a signal handled while
\* _main runs outside write_new_line logs it and calls app_exit(2), whose
\* exit(2) raises SystemExit from where the program was.
StopSignal ==
    /\ pc \in {"header", "roots", "walking", "root_sleep"}
    /\ pc' = "exit2"
    /\ UNCHANGED <<world, options, root, stack, emitted, node, symlink_result,
                   os_answers, output, listed, ls_calls, readlink_calls,
                   read_calls, scandir_calls, probe_calls, os_listing, raised>>

\* ls2csv /a, on a quiet file system, with stop signals.
InitStop == world = StopWorld /\ InitRun(<<RootA>>)

NextStop == Next \/ StopSignal

SpecStop == InitStop /\ [][NextStop]_vars

\* ------------------------------------------------- one size, one rendering

\* The digits met in sizes, and the sizes rendered: up to six digits, so
\* from 0 bytes to more than 1024 Tb and less than 2^53 bytes.
SizeDigit == {0, 1, 51, 512, 768, 1023}
MaxTopDigit == 7
SizeInputs ==
    {<<a, b, c, d, e, f>> :
        a \in SizeDigit, b \in SizeDigit, c \in {0, 1, 512}, d \in {0, 1, 1023},
        e \in {0, 1, 1023}, f \in {0, 1, MaxTopDigit}}

InitSize ==
    /\ world = QuietWorld
    /\ Started("size", {prepare_options(<<RootA>>, <<>>, None, None, None)})

\* NodeInfos.size_value_converted_to, line 632: the size of a node is
\* rendered with no unit asked for.
ConvertSize ==
    /\ pc = "size"
    /\ \E digits \in SizeInputs :
          /\ os_answers' = Some(digits)
          /\ output' = <<convert_to(digits)>>
    /\ pc' = "rendered"
    /\ UNCHANGED <<world, options, root, stack, emitted, node, symlink_result,
                   listed, ls_calls, readlink_calls, read_calls, scandir_calls,
                   probe_calls, os_listing, raised>>

\* Size.convert_to applied to every size of SizeInputs.
SpecSize == InitSize /\ [][ConvertSize]_vars

\* ------------------------------------------------------------- start-up

\* The path "." of a command line, and the directory the tool is started
\* in, "/a"; the home of the user, "/b"; a path that does not exist, "/d".
DotPath == << <<Dot>> >>
CurrentDir == RootA
HomePath == RootB
MissingPath == << <<4>> >>

\* create_args_parser, lines 1553-1554: the positional `pathes` has
\* nargs='*' and no default, so parse_args() always gives a list, the
\* paths of the command line in their order, empty when there is none.
parse_args_pathes(argv) == Some(argv)

\* Path(path).resolve(strict=True), line 1710.
resolve(path) == IF path = DotPath THEN CurrentDir ELSE path

\* prepare_options, lines 1705-1712: the roots to walk; "." stands for
\* them only when the parsed value is None.
pathes_to_walk(parsed_pathes) ==
    LET pathes == IF parsed_pathes = None THEN <<DotPath>> ELSE parsed_pathes[1]
    IN  [i \in 1..Len(pathes) |-> resolve(pathes[i])]

\* prepare_options, lines 1719-1729 and 1763-1773: the path an option
\* --pathes-relative-to or --excluded-relative-to stands for; "<WALKED>"
\* is the first root, and an IndexError when there is no root.
relative_to_option(option, walked) ==
    IF option = "<HOME>" THEN Some(HomePath)
    ELSE IF option = "<WALKED>"
         THEN IF walked = <<>> THEN None ELSE Some(walked[1])
    ELSE Some(RootA)

\* The command lines tried: no path, ".", "/a", "/b", a path that does not
\* exist, and two paths.
ArgvPathes ==
    {<<>>, <<DotPath>>, <<RootA>>, <<RootB>>, <<MissingPath>>,
     <<RootA, RootB>>, <<DotPath, RootB>>}
RelativeToOptions == {"<WALKED>", "<HOME>", "/a"}

InitStart ==
    /\ world = QuietWorld
    /\ Started("start", {prepare_options(<<>>, <<>>, None, None, None)})

\* main, lines 1909-1913, and prepare_options: the command line is parsed
\* and the Options are built; exit_on_error ends the run with status 1,
\* and an exception nobody catches ends it with a traceback.
StartUp ==
    /\ pc = "start"
    /\ \E argv \in ArgvPathes, pathes_option \in RelativeToOptions,
          excluded_option \in RelativeToOptions,
          o \in {None, Some(OutputPath)}, c \in {None, Some("md5")} :
          LET walked == pathes_to_walk(parse_args_pathes(argv))
              several == Len(walked) > 1
              unreached == \E i \in 1..Len(argv) : argv[i] = MissingPath
              pathes_relative_to == relative_to_option(pathes_option, walked)
              excluded_relative_to == relative_to_option(excluded_option, walked)
          IN  /\ os_answers' = Some([pathes |-> argv,
                                     pathes_relative_to |-> pathes_option,
                                     excluded_relative_to |-> excluded_option,
                                     output |-> o, checksum |-> c])
              /\ IF unreached
                    \/ (several /\ "<WALKED>" \in {pathes_option, excluded_option})
                 THEN pc' = "exit1" /\ raised' = "" /\ options' = options
                 ELSE IF None \in {pathes_relative_to, excluded_relative_to}
                 THEN pc' = "crashed" /\ raised' = "IndexError"
                      /\ options' = options
                 ELSE /\ pc' = "header" /\ raised' = ""
                      /\ options' =
                            [prepare_options(walked, ExplicitExcluded, o, None, c)
                                EXCEPT !.pathes_relative_to = pathes_relative_to]
    /\ UNCHANGED <<world, root, stack, emitted, node, symlink_result, output,
                   listed, ls_calls, readlink_calls, read_calls, scandir_calls,
                   probe_calls, os_listing>>

\* The start of the tool on every command line of ArgvPathes.
SpecStart == InitStart /\ [][StartUp]_vars

\* --------------------------------------------- one entry, excluded or not

\* Names an entry may bear: "a", "b", "c", "bc", and names with a line feed
\* in them, "b\n" and "c\nd".
EntryNames ==
    {<<1>>, <<2>>, <<3>>, <<2, 3>>, <<2, Newline>>, <<3, Newline, 4>>}

\* The directories entries are met in: "/a", "/a/b", "/a/bc", "/c/a".
EntryParents ==
    {RootA, << <<1>>, <<2>> >>, << <<1>>, <<2, 3>> >>, << <<3>>, <<1>> >>}

\* ls2csv --exclude /a/b or --exclude /a/b/ or no --exclude, with or
\* without --output.
InitExcluded ==
    /\ world = QuietWorld
    /\ Started("entry",
               {prepare_options(<<RootA>>, e, o, None, None) :
                    e \in {<<>>, ExplicitExcluded,
                           <<Pattern(<< <<1>>, <<2>> >>, FALSE)>>},
                    o \in {None, Some(OutputPath)}})

\* _scandir, line 1397: one entry handed over by os.scandir is wrapped in a
\* DirEntry, whose type is "excluded" when is_path_excluded says so.
NewDirEntry ==
    /\ pc = "entry"
    /\ \E parent_dirpath \in EntryParents, name \in EntryNames,
          kind \in {"dir", "file"} :
          node' = Some(DirEntry(options.excluded, parent_dirpath,
                                [name |-> name, kind |-> kind]))
    /\ UNCHANGED <<world, options, pc, root, stack, emitted, symlink_result,
                   os_answers, output, listed, ls_calls, readlink_calls,
                   read_calls, scandir_calls, probe_calls, os_listing, raised>>

\* DirEntry.set_type applied to every entry of EntryParents and EntryNames.
SpecExcluded == InitExcluded /\ [][NewDirEntry]_vars

\* ------------------------------------------------------------ properties

Parent(path) == SubSeq(path, 1, Len(path) - 1)

\* The place of each type in the order of the loops of walk().
BucketRank(type) ==
    CASE type = "directory" -> 1
      [] type = "file"      -> 2
      [] type = "symlink"   -> 3
      [] type = "excluded"  -> 4
      [] OTHER              -> 5

Emitted == 1..Len(emitted)

\* The records emitted so far for the children of directory d.
ChildrenOf(d) == {i \in Emitted : Parent(emitted[i].path) = d}

\* C1: among the children of one directory, walk emits the subdirectories,
\* then the regular files, then the symlinks, then the excluded entries,
\* then the entries of unknown type: no child of a later bucket is emitted
\* before a child of an earlier one.
C1_BucketOrder ==
    \A i, j \in Emitted :
        (i < j /\ Parent(emitted[i].path) = Parent(emitted[j].path))
            => BucketRank(emitted[i].type) <= BucketRank(emitted[j].type)

\* C1's case: one directory has had a subdirectory, a regular file, a
\* symlink and an excluded entry emitted.
C1_Witness ==
    \E i \in Emitted :
        \A t \in {"directory", "file", "symlink", "excluded"} :
            \E j \in ChildrenOf(Parent(emitted[i].path)) : emitted[j].type = t

\* The entries are in ascending order of name.
Ascending(entries) ==
    \A i, j \in 1..Len(entries) :
        i < j => StrLess(entries[i].name, entries[j].name)

Last(path) == path[Len(path)]

\* C2: the directories, files, links and unknowns that _scandir returns are
\* each in ascending order of name, whatever the order os.scandir() handed
\* the entries over in, and walk emits the entries of each of these buckets
\* in that order.
C2_BucketsSortedByName ==
    /\ \A k \in 1..Len(stack) :
          /\ Ascending(stack[k].directories)
          /\ Ascending(stack[k].files)
          /\ Ascending(stack[k].links)
          /\ Ascending(stack[k].unknowns)
    /\ \A i, j \in Emitted :
          (/\ i < j
           /\ Parent(emitted[i].path) = Parent(emitted[j].path)
           /\ emitted[i].type = emitted[j].type
           /\ emitted[i].type # "excluded")
              => StrLess(Last(emitted[i].path), Last(emitted[j].path))

\* C2's case: two entries of one bucket have been emitted, and os.scandir()
\* has just handed over two entries of one bucket, the greater name first.
C2_Witness ==
    /\ \E i, j \in Emitted :
          /\ i < j
          /\ Parent(emitted[i].path) = Parent(emitted[j].path)
          /\ emitted[i].type = emitted[j].type
          /\ emitted[i].type # "excluded"
    /\ os_listing # None
    /\ \E i, j \in 1..Len(os_listing[1].names) :
          /\ i < j
          /\ StrLess(os_listing[1].names[j], os_listing[1].names[i])
          /\ \E b \in {Top.directories, Top.files, Top.links, Top.unknowns} :
                \E m, n \in 1..Len(b) : /\ b[m].name = os_listing[1].names[j]
                                         /\ b[n].name = os_listing[1].names[i]

\* Record i lies inside directory d, below its immediate children or among
\* them.
Inside(i, d) == Len(emitted[i].path) > Len(d) /\ IsPrefix(d, emitted[i].path)

\* C3: walk emits every immediate child of a directory before any record
\* from inside one of its subdirectories; it descends into the
\* subdirectories in the order it emitted them; and the records from inside
\* one subdirectory are emitted one after the other, none from elsewhere
\* between them.
C3_SiblingsThenDepthFirst ==
    /\ \A i, j \in Emitted :
          LET d == Parent(emitted[j].path)
          IN  (Inside(i, d) /\ Len(emitted[i].path) > Len(d) + 1) => j < i
    /\ \A i, j \in Emitted :
          (/\ i < j
           /\ Parent(emitted[i].path) = Parent(emitted[j].path))
              => \A m, n \in Emitted :
                    (Inside(m, emitted[i].path) /\ Inside(n, emitted[j].path))
                        => m < n
    /\ \A i, j, k \in Emitted :
          (i < k /\ k < j)
              => \A n \in 1..(Len(emitted[i].path) - 1) :
                    LET d == SubSeq(emitted[i].path, 1, n)
                    IN  Inside(j, d) => Inside(k, d)

\* C3's case: two subdirectories of one directory were emitted, then a
\* child and a grandchild of the first, then a child of the second.
C3_Witness ==
    \E i, j \in Emitted :
        /\ i < j
        /\ Parent(emitted[i].path) = Parent(emitted[j].path)
        /\ \E m, n \in Emitted :
              /\ Inside(m, emitted[i].path)
              /\ Len(emitted[m].path) = Len(emitted[i].path) + 2
              /\ Inside(n, emitted[j].path)

\* Some directory above path, or path itself, is excluded.
UnderExcluded(path) ==
    \E n \in 1..Len(path) : is_path_excluded(options.excluded, SubSeq(path, 1, n))

Range(s) == {s[i] : i \in 1..Len(s)}

\* C4: the record of an entry whose path matches an exclusion pattern has
\* type excluded and nothing but its path and type, and nothing is collected
\* about that entry or any entry beneath it: its type is not probed, `ls` is
\* not run on it, its link is not read, its content is not read, and it is
\* neither scanned nor walked into.
C4_ExcludedUntouched ==
    /\ \A i \in Emitted :
          is_path_excluded(options.excluded, emitted[i].path)
              => emitted[i].type = "excluded"
    /\ (node # None /\ is_path_excluded(options.excluded, node[1].path))
          => node[1] = NodeInfos(node[1].path, "excluded", NoInfos)
    /\ \A path \in probe_calls \cup Range(ls_calls) \cup Range(readlink_calls)
                  \cup Range(read_calls) \cup Range(scandir_calls) :
          ~UnderExcluded(path)
    /\ \A k \in 1..Len(stack) : ~UnderExcluded(stack[k].dir_entry.path)
    /\ \A e \in listed : ~UnderExcluded(Parent(e.path))

\* C4's case: a run with checksums asked for has ended after it emitted the
\* record of an excluded directory and the record of an excluded file or
\* symlink.
C4_Witness ==
    /\ pc = "done"
    /\ options.checksum # None
    /\ \E i, j \in Emitted :
          /\ emitted[i].type = "excluded"
          /\ emitted[j].type = "excluded"
          /\ [path |-> emitted[i].path, kind |-> "dir"] \in listed
          /\ \E k \in {"file", "symlink"} :
                [path |-> emitted[j].path, kind |-> k] \in listed

\* Every place of the state that holds the type of an entry: the buckets
\* and the directory of each call of walk(), and the records emitted.
Classified ==
    UNION {Range(stack[k].directories) \cup Range(stack[k].files)
           \cup Range(stack[k].links) \cup Range(stack[k].excluded)
           \cup Range(stack[k].unknowns) \cup {stack[k].dir_entry}
              : k \in 1..Len(stack)}

TypesOf(path) ==
    {e.type : e \in {c \in Classified : c.path = path}}
    \cup {emitted[i].type : i \in {j \in Emitted : emitted[j].path = path}}

\* C5: an entry whose path matches an exclusion pattern is excluded and its
\* type is not probed; any other entry is a symlink if the OS says it is a
\* symlink, whatever it leads to, else a directory if the OS says so, else
\* a file if the OS says so, and unknown when the OS says none of these or
\* raises an error; and wherever the entry is held later, it has that type.
C5_ClassificationPriority ==
    \A e \in listed :
        \A t \in TypesOf(e.path) :
            IF is_path_excluded(options.excluded, e.path)
            THEN t = "excluded" /\ e.path \notin probe_calls
            ELSE /\ e.kind = "symlink" => t = "symlink"
                 /\ e.kind = "dir" => t = "directory"
                 /\ e.kind = "file" => t = "file"
                 /\ e.kind \in {"other", "oserror"} => t = "unknown"

\* C5's case: a symlink, which leads to a directory, and an entry whose
\* probing raised OSError have been classified and emitted.
C5_Witness ==
    \E i, j \in Emitted :
        /\ [path |-> emitted[i].path, kind |-> "symlink"] \in listed
        /\ emitted[i].type = "symlink"
        /\ is_dir([name |-> Last(emitted[i].path), kind |-> "symlink"], TRUE)
        /\ [path |-> emitted[j].path, kind |-> "oserror"] \in listed
        /\ emitted[j].type = "unknown"

\* The step just taken processed a symlink, and the OS answered lnk.
LinkProcessed == os_answers # None /\ symlink_result # None
LinkAnswer == os_answers[1].lnk

\* The link leads back to itself: following it, leniently or strictly, ends
\* in a loop.
Circular(lnk) ==
    lnk.readlink = "ok" /\ (lnk.resolve = "loop" \/ lnk.strict = "loop")

\* The link leads to a path that does not exist.
Broken(lnk) ==
    lnk.readlink = "ok" /\ lnk.resolve = "ok" /\ lnk.strict = "notfound"

\* C6: for a symlink that leads back to itself, get_symlink_infos returns a
\* SymLink of type circular and raises nothing, and the record of the node
\* is built, with that symlink type, so that the walk goes on.
C6_CircularLinkRecord ==
    (LinkProcessed /\ Circular(LinkAnswer))
        => /\ symlink_result[1].raised = ""
           /\ symlink_result[1].value # None
           /\ symlink_result[1].value[1].type = "circular"
           /\ node # None
           /\ node[1].symlink_type = Some("circular")
           /\ pc # "crashed"

\* C7, as claimed: the record of a symlink whose target does not exist has
\* symlink type broken, no resolved path, and no message about the link:
\* with nothing else wrong, the record has no error.
C7_BrokenLinkNoMessage ==
    (LinkProcessed /\ Broken(LinkAnswer) /\ node # None)
        => /\ node[1].symlink_type = Some("broken")
           /\ node[1].resolved_symlink_path = None
           /\ MsgBroken \notin Range(node[1].error_msgs)
           /\ (/\ os_answers[1].exists
               /\ os_answers[1].times # None
               /\ os_answers[1].ls.rc = "ok"
               /\ LsMatch(os_answers[1].ls.stdout)
               /\ os_answers[1].ls.stdout.p_type = "l")
                  => ~has_error(node[1])

\* C7, amended: the record of a symlink whose target does not exist has
\* symlink type broken, no resolved path, and the message that the link is
\* broken: the record has an error.
C7_BrokenLinkFlagged ==
    (LinkProcessed /\ Broken(LinkAnswer))
        => /\ node # None
           /\ node[1].symlink_type = Some("broken")
           /\ node[1].resolved_symlink_path = None
           /\ MsgBroken \in Range(node[1].error_msgs)
           /\ has_error(node[1])

\* C7's case: a symlink whose target does not exist was processed, and all
\* else about it went well.
C7_Witness ==
    /\ LinkProcessed /\ Broken(LinkAnswer) /\ node # None
    /\ os_answers[1].exists
    /\ os_answers[1].times # None
    /\ os_answers[1].ls.rc = "ok"
    /\ LsMatch(os_answers[1].ls.stdout)
    /\ os_answers[1].ls.stdout.p_type = "l"

\* C8: the record of a symlink whose value was read has the value, made
\* absolute against the directory of the link, and a symlink type; and when
\* the target resolves to the end, the resolved path.
C8_LinkValueCarried ==
    (LinkProcessed /\ LinkAnswer.readlink = "ok" /\ node # None)
        => /\ node[1].symlink_value =
                  Some(MakeAbsolute(node[1].path, LinkAnswer.value))
           /\ node[1].symlink_type # None
           /\ LinkAnswer.strict = "ok"
                  => node[1].resolved_symlink_path =
                        Some(Resolve(MakeAbsolute(node[1].path, LinkAnswer.value),
                                     LinkAnswer))

\* The types set_type gives to the entries os.scandir() handed over under
\* this path.
ClassificationOf(path) ==
    {set_type(options.excluded, Parent(e.path),
              [name |-> Last(e.path), kind |-> e.kind])
        : e \in {x \in listed : x.path = path}}

\* The step just taken ran `ls` on a node, and `ls` answered os_answers[1].ls.
LsRun == os_answers # None /\ node # None
LsAnswer == os_answers[1].ls

\* `ls` gave a text that LS_OUTPUT_REGEX does not match.
Unparsed(ls) == ls.rc = "ok" /\ ls.stdout.shape # "empty" /\ ~LsMatch(ls.stdout)

\* `ls` gave a line whose type character is not the one of the type.
Mismatch(ls, type_) ==
    /\ ls.rc = "ok" /\ ls.stdout.shape # "empty" /\ LsMatch(ls.stdout)
    /\ ls.stdout.p_type # as_ls_output_char(type_)

ListingFields ==
    {"perms", "links_nb", "user_owner", "group_owner", "security", "size"}

\* C9: when the text of `ls` does not match the pattern, the record is built
\* with the type of the classification, none of the fields read from `ls`,
\* the parse message and the text itself, and the run goes on; and no other
\* record has the text of `ls`: not when it parsed, not when there was none.
C9_UnparsedListing ==
    /\ (LsRun /\ Unparsed(LsAnswer))
          => /\ \A t \in ClassificationOf(node[1].path) : node[1].type = t
             /\ \A f \in ListingFields : node[1][f] = None
             /\ MsgLsUnparsed \in Range(node[1].error_msgs)
             /\ node[1].ls_output = Some(LsAnswer.stdout)
             /\ pc # "crashed"
             /\ pc = "walking" => emitted[Len(emitted)].path = node[1].path
    /\ (LsRun /\ ~Unparsed(LsAnswer)) => node[1].ls_output = None
    /\ (node # None /\ os_answers = None) => node[1].ls_output = None

\* C9's case: walk() has just emitted the record of a node for which `ls`
\* gave a text the pattern does not match.
C9_Witness ==
    /\ LsRun /\ Unparsed(LsAnswer)
    /\ pc = "walking"
    /\ emitted[Len(emitted)].path = node[1].path

\* C10: when the type character `ls` printed is not the one of the type
\* the OS reported, the record gets the message that the types differ and
\* is otherwise what it would be: the type of the classification, every
\* field read from `ls`, no unparsed text; and the run goes on.
C10_TypeMismatchWarnsOnly ==
    (LsRun /\ Mismatch(LsAnswer, node[1].type))
        => /\ MsgTypesDiffer \in Range(node[1].error_msgs)
           /\ \A t \in ClassificationOf(node[1].path) : node[1].type = t
           /\ node[1].perms = Some(LsAnswer.stdout.p_perms)
           /\ node[1].links_nb = Some(LsAnswer.stdout.links_nb)
           /\ node[1].user_owner = Some(LsAnswer.stdout.user_owner)
           /\ node[1].group_owner = Some(LsAnswer.stdout.group_owner)
           /\ node[1].security = Some(LsAnswer.stdout.security)
           /\ node[1].size = Some(LsAnswer.stdout.size)
           /\ node[1].ls_output = None
           /\ pc # "crashed"
           /\ pc = "walking" => emitted[Len(emitted)].path = node[1].path

\* C10's case: walk() has just emitted the record of a directory for which
\* `ls` printed the line of a regular file.
C10_Witness ==
    /\ LsRun /\ Mismatch(LsAnswer, node[1].type)
    /\ node[1].type = "directory"
    /\ LsAnswer.stdout.p_type = "-"
    /\ pc = "walking"
    /\ emitted[Len(emitted)].path = node[1].path

\* The step just taken built the record of a regular file while checksums
\* are asked for: process_dir_entry tried to compute one.
ChecksumTried ==
    /\ os_answers # None /\ node # None
    /\ options.checksum # None
    /\ node[1].type = "file"

ChecksumMessages == {MsgChecksumGone, MsgChecksumUnreadable}

\* C11: when a checksum is asked for and the file is gone or cannot be
\* read, its record has type file, a message about the failed attempt and
\* no digest, and the run goes on; an attempt ends with a digest stored or
\* with a message appended, never both and never neither; and a record for
\* which no attempt was made has neither.
C11_ChecksumFailureRecorded ==
    /\ (ChecksumTried /\ os_answers[1].cks \in {"gone", "unreadable"})
          => /\ node[1].checksums = None
             /\ Range(node[1].error_msgs) \cap ChecksumMessages # {}
             /\ pc # "crashed"
             /\ pc = "walking" => emitted[Len(emitted)].path = node[1].path
    /\ ChecksumTried
          => (node[1].checksums # None)
                 # (Range(node[1].error_msgs) \cap ChecksumMessages # {})
    /\ (node # None /\ ~ChecksumTried)
          => /\ node[1].checksums = None
             /\ Range(node[1].error_msgs) \cap ChecksumMessages = {}

\* C11's case: walk() has just emitted the record of a regular file whose
\* content could not be read for the checksum asked for.
C11_Witness ==
    /\ ChecksumTried
    /\ os_answers[1].cks = "unreadable"
    /\ pc = "walking"
    /\ emitted[Len(emitted)].path = node[1].path

\* The cells read back from the row written, and the one of the security
\* label.
CellsBack == ParseCsvRow(output[1])
ColumnsNb == 22
SecurityColumn == 10

\* C12: a record whose security label holds a double quote is written as a
\* row that reads back as the same number of cells, the label among them
\* unchanged.
C12_QuoteRoundTrip ==
    (pc = "written" /\ node[1].security # None
        /\ \E i \in 1..Len(node[1].security[1]) :
               node[1].security[1][i] = Quote)
    => /\ Len(CellsBack) = ColumnsNb
       /\ CellsBack[SecurityColumn] = node[1].security[1]


\* The text of one cell of the row of the record just written, and what the
\* record was built from.
Cell(i) == tocsv(<<RowItems(node[1], options.pathes_relative_to)[i]>>)
Obtained == os_answers[1]
ZeroText == <<48>>
ZeroFloatText == <<48, Dot, 48>>

\* A number obtained or not, against the cell it is written in.
Faithful(value, i, zero) ==
    /\ (value = None) <=> (Cell(i) = <<>>)
    /\ (value = Some(0)) => (Cell(i) = zero)

\* C13 (links and size): a link count or a size of zero is written as 0,
\* and only one not obtained gives an empty cell.
ZeroCountsRendered ==
    pc = "written" =>
        /\ Cell(1) # <<>>
        /\ Faithful(Obtained.links_nb, 4, ZeroText)
        /\ Faithful(Obtained.size, 5, ZeroText)

\* C13: the row of a record has its path cell filled, and each of its
\* number cells (link count, size, the three timestamps) is empty only when
\* the value was not obtained, a value of zero being written as zero.
C13_ZeroValuesRendered ==
    /\ ZeroCountsRendered
    /\ pc = "written" =>
        /\ Faithful(Obtained.atime, 11, ZeroFloatText)
        /\ Faithful(Obtained.mtime, 13, ZeroFloatText)
        /\ Faithful(Obtained.ctime, 15, ZeroFloatText)

\* The text a path is to be written as under a configured root: relative to
\* the root when under it, absolute otherwise.
Rendered(path, relative_to) ==
    IF relative_to # None /\ IsPrefix(relative_to[1], path)
    THEN RelativeStr(path, relative_to[1])
    ELSE PathStr(path)

\* A path of the record, if any, against the cell it is written in.
PathFaithful(path, i) ==
    Cell(i) = IF path = None THEN <<>>
              ELSE tocsv(<<OtherCell(Rendered(path[1],
                                             options.pathes_relative_to))>>)

\* C14 (node path): the path of the node is written relative to the root
\* when under it, absolute otherwise.
NodePathRendered == pc = "written" => PathFaithful(Some(node[1].path), 1)

\* C14: each path of a row (node path, link value, resolved link path) is
\* written relative to the configured root when under it and absolute
\* otherwise, and is never left out.
C14_PathesRelativeToRoot ==
    /\ NodePathRendered
    /\ pc = "written" =>
        /\ PathFaithful(Obtained.symlink_value, 17)
        /\ PathFaithful(Obtained.resolved_symlink_path, 19)

\* Some pattern's path is the path, or is above it for a directory pattern.
EqualOrUnder(excluded, path) ==
    \E i \in 1..Len(excluded) :
        \/ path = excluded[i].path
        \/ /\ excluded[i].is_dir
           /\ Len(path) > Len(excluded[i].path)
           /\ IsPrefix(excluded[i].path, path)

\* The name of the entry holds no line feed.
OneLineName == \A i \in 1..Len(node[1].name) : node[1].name[i] # Newline

\* C15 (names of one line): an entry whose name holds no line feed is
\* excluded exactly when a pattern's path is its path or, for a directory
\* pattern, is above it.
ExcludedExactlyOneLine ==
    (pc = "entry" /\ node # None /\ OneLineName) =>
        ((node[1].type = "excluded")
            <=> EqualOrUnder(options.excluded, node[1].path))

\* C15: an entry is excluded exactly when a pattern's path is its path or,
\* for a directory pattern, is above it.
C15_ExcludedExactly ==
    (pc = "entry" /\ node # None) =>
        ((node[1].type = "excluded")
            <=> EqualOrUnder(options.excluded, node[1].path))

\* The paths of the script and of the configured output and log files.
SelfPathes ==
    {ScriptPath}
    \cup (IF options.output_path = None THEN {} ELSE {options.output_path[1]})
    \cup (IF options.logfile_path = None THEN {} ELSE {options.logfile_path[1]})

\* C16: the exclusion patterns hold the path of the script and those of the
\* configured output and log files; the record of any of them has type
\* excluded, `ls` is never run on it and its content is never read.
C16_SelfExcluded ==
    /\ \A path \in SelfPathes :
          /\ \E i \in 1..Len(options.excluded) :
                 options.excluded[i].path = path
          /\ is_path_excluded(options.excluded, path)
          /\ path \notin Range(ls_calls) \cup Range(read_calls)
    /\ \A i \in Emitted :
          emitted[i].path \in SelfPathes => emitted[i].type = "excluded"

\* C16's case: a run with an output file, a log file and checksums asked
\* for, and with no explicit exclusion, has ended after it met the script,
\* the output file and the log file.
C16_Witness ==
    /\ pc = "done"
    /\ options.checksum # None
    /\ Len(options.excluded) = 3
    /\ \A path \in {ScriptPath, OutputPath, LogfilePath} :
          \E i \in Emitted : emitted[i].path = path

\* A step in which a row was to be written: the header, or the row of a
\* record just described or yielded.
WriteTried ==
    \/ pc = "header"
    \/ Len(ls_calls') > Len(ls_calls)
    \/ Len(emitted') > Len(emitted)

\* C17: a step whose write of a row fails, for the header or for a node,
\* ends the run with exit status 1, and a run so ended takes no further
\* step: nothing more is described, read or written.
C17_FailedWriteEndsRun ==
    [][/\ (WriteTried /\ output' = output) => pc' = "exit1"
       /\ pc # "exit1"]_vars

\* C17's case: the write of a node row failed after the header and a first
\* row were written, with a root still to walk.
C17_Witness ==
    /\ pc = "exit1"
    /\ Len(output) >= 2
    /\ Len(emitted) >= Len(output)
    /\ root = 1

\* The initial entry of a root was just looked for and not found: the
\* listing of its parent failed, or the root was not in it.
RootNotLocated == os_listing # None /\ stack = <<>>

\* C18 as stated: when the initial entry of a root cannot be located, the run
\* is over.
C18_UnlocatedRootAborts == RootNotLocated => pc \in {"crashed", "exit1"}

\* C18, amended: when the parent of a root is gone or the root is not among
\* its parent's entries, the root is skipped, with no row written for it,
\* and the run goes on with the next root; when listing the parent fails
\* otherwise, the run ends on the OSError with nothing more written.
C18_UnlocatedRootSkippedOrFatal ==
    [][RootNotLocated' =>
          /\ output' = output /\ emitted' = emitted /\ ls_calls' = ls_calls
          /\ IF os_listing'[1].error = "FileNotFoundError"
             THEN pc' = "roots" /\ root' = root + 1 /\ raised' = ""
             ELSE pc' = "crashed" /\ raised' = "OSError" /\ root' = root]_vars

\* C18's case: the first root was not found in its parent, and the second
\* root is still to be walked.
C18_Witness ==
    /\ RootNotLocated
    /\ ~os_listing[1].failed
    /\ pc = "roots"
    /\ root = 2
    /\ Len(options.walked_pathes) = 2

\* The row is that of an entry met in a walk, not that of a root given on
\* the command line (written by _main without walk).
IsWalkRow(row) ==
    \A i \in 1..Len(options.walked_pathes) : row.path # options.walked_pathes[i]

\* The paths of the rows written for the records of the walks, and the paths
\* of the records yielded, both in order.
WalkRows ==
    IF output = <<>> THEN <<>>
    ELSE LET rows == SelectSeq(Tail(output), IsWalkRow)
         IN  [i \in 1..Len(rows) |-> rows[i].path]
Yielded == [i \in 1..Len(emitted) |-> emitted[i].path]

\* C19: the output starts with the header row, the only one, written before
\* any record is yielded; the rows after it are those of the records the
\* walk yielded, one each and in the same order, the record whose write
\* failed and ended the run being the only one without a row.
C19_RowPerRecord ==
    /\ output = <<>> => emitted = <<>>
    /\ output # <<>> =>
          /\ output[1] = HeaderRow
          /\ \A i \in 2..Len(output) : ~output[i].header
    /\ WalkRows = SubSeq(Yielded, 1, Len(WalkRows))
    /\ Len(Yielded) - Len(WalkRows) = IF pc = "exit1" /\ node # None
                                       /\ Yielded # <<>>
                                       /\ node[1].path = Last(Yielded)
                                      THEN 1 ELSE 0

\* C19's case: a run has ended normally after the walk yielded at least two
\* records, in a directory and in one of its subdirectories.
C19_Witness ==
    /\ pc = "done"
    /\ Len(emitted) >= 2
    /\ \E i \in Emitted : Len(emitted[i].path) >= 3

\* C20: the handling of a stop signal ends the run with status 2 and
\* nothing more is done after it: no entry is described, listed or read and
\* no row is written.  The step in which the signal is handled leaves the
\* output as it was or with one more row, and every line of the output is a
\* whole one, ended by its line feed.
C20_StopIsOrderly ==
    [][/\ pc # "exit2"
       /\ \A i \in 1..Len(output') : output'[i].ended
       /\ pc' = "exit2" =>
             /\ pc' # "done"
             /\ Len(output') \in {Len(output), Len(output) + 1}
             /\ SubSeq(output', 1, Len(output)) = output]_vars

\* C20's case: a stop signal was handled during a walk inside
\* write_new_line, before the row of the record just yielded was written.
C20_Witness ==
    /\ pc = "exit2"
    /\ stack # <<>>
    /\ node # None
    /\ Yielded # <<>>
    /\ node[1].path = Last(Yielded)
    /\ Len(Yielded) = Len(WalkRows) + 1

\* C20's other case: the signal was handled inside write_new_line after the
\* row was handed to write(): the row of the record just yielded is the last
\* of the output and the walk has not gone past that record.
StoppedAfterWrite ==
    /\ pc = "exit2"
    /\ stack # <<>> /\ ~Top.sleeping
    /\ node # None /\ node[1].type = "file"
    /\ Last(output) = Row(node[1])

\* The place of the highest digit of a size that is not zero (1 for the size
\* zero), and the unit a size of so many digits is to be scaled to.
DigitsNb(digits) ==
    IF \A i \in 1..Len(digits) : digits[i] = 0 THEN 1
    ELSE CHOOSE n \in 1..Len(digits) :
            digits[n] # 0 /\ \A i \in (n + 1)..Len(digits) : digits[i] = 0
UnitOf(digits) == IF DigitsNb(digits) > 5 THEN 5 ELSE DigitsNb(digits)

\* A text is a number of tenths written with one decimal, then a space and
\* a unit.
WithOneDecimal(text, tenths, unit) ==
    text = IntStr(tenths \div 10) \o <<Dot>> \o IntStr(tenths % 10)
           \o <<Space>> \o UNITS[unit]

\* C21: a size under 1024 bytes is rendered as its number and " b"; a larger
\* one is scaled by 1024 to the first unit where it is under 1024, or to Tb,
\* and rendered with one decimal, the tenth just below or just above its
\* value; 1023 gives "1023 b", 1024 "1.0 Kb", 1024 * 1024 "1.0 Mb".
C21_ConvertTo ==
    pc = "rendered" =>
        LET digits == os_answers[1]
            text == output[1]
            unit == UnitOf(digits)
            floor == 10 * Number(SubSeq(digits, unit, Len(digits)))
                     + TenTimes(SubSeq(digits, 1, unit - 1)).carry
        IN  /\ unit = 1 => text = IntStr(digits[1]) \o <<Space, 98>>
            /\ unit > 1 => \/ WithOneDecimal(text, floor, unit)
                           \/ WithOneDecimal(text, floor + 1, unit)
            /\ digits = <<1023, 0, 0, 0, 0, 0>> => text = <<49, 48, 50, 51, 32, 98>>
            /\ digits = <<0, 1, 0, 0, 0, 0>> => text = <<49, 46, 48, 32, 75, 98>>
            /\ digits = <<0, 0, 1, 0, 0, 0>> => text = <<49, 46, 48, 32, 77, 98>>

\* C21's case: a size of 1024 Tb or more was rendered.
C21_Witness ==
    /\ pc = "rendered"
    /\ os_answers[1][6] # 0
    /\ output[1] # <<>>


\* The command line of the run, once parsed.
CommandLine == os_answers[1]
Parsed == pc \in {"header", "exit1", "crashed"} /\ os_answers # None

\* C22: when the tool is started with no path argument, the current
\* directory is the single root that is walked.
C22_NoPathWalksCurrentDir ==
    (Parsed /\ CommandLine.pathes = <<>>)
        => (pc = "header" /\ options.walked_pathes = <<CurrentDir>>)


\* readlink() raised PermissionError or another OSError.
Unreadable(lnk) == lnk.readlink # "ok"

\* C23: when reading the value of a symlink fails, get_symlink_infos returns
\* a Result with an error message and no value, and the record of the node
\* is built and emitted: of type symlink, with the message, without any
\* symlink field; the walk goes on.
C23_UnreadableLinkRecorded ==
    (LinkProcessed /\ Unreadable(LinkAnswer))
        => /\ symlink_result[1].raised = ""
           /\ symlink_result[1].value = None
           /\ symlink_result[1].error_msg # None
           /\ node # None
           /\ node[1].type = "symlink"
           /\ has_error(node[1])
           /\ node[1].symlink_value = None
           /\ node[1].symlink_type = None
           /\ node[1].resolved_symlink_path = None
           /\ pc # "crashed"

\* The link resolves to the end, and the type of its target is not found:
\* the probe is refused, or the target is no link, directory or file.
TargetUntyped(lnk) ==
    /\ lnk.readlink = "ok" /\ lnk.resolve = "ok" /\ lnk.strict = "ok"
    /\ lnk.probe \in {"perm", "other"}

\* C24: when the target of a symlink resolves and its type is not found,
\* get_symlink_infos still returns a SymLink, of type unknown, and the
\* record of the node is built and emitted, with that symlink type and the
\* message of the failure.
C24_UntypedTargetRecorded ==
    (LinkProcessed /\ TargetUntyped(LinkAnswer))
        => /\ symlink_result[1].raised = ""
           /\ symlink_result[1].value # None
           /\ symlink_result[1].value[1].type = "unknown"
           /\ node # None
           /\ node[1].symlink_type = Some("unknown")
           /\ has_error(node[1])
           /\ pc # "crashed"


\* How many times `ls` was run on the path.
LsCallsOn(path) == Cardinality({j \in 1..Len(ls_calls) : ls_calls[j] = path})

\* The record is that of an excluded entry, yielded undescribed.
YieldedExcluded(path) ==
    \E i \in Emitted : emitted[i].path = path /\ emitted[i].type = "excluded"

\* C25: `ls` is run once, and no more, on every node that is emitted and is
\* not excluded: on the node of every record yielded and of every row
\* written.  When `ls` fails, the record of the node is still built and
\* emitted, with none of the fields read from `ls`, no unparsed text, and
\* the message of the failure; the run goes on, unless the write of the row
\* itself fails.
C25_ListingOncePerNode ==
    /\ \A j \in 1..Len(ls_calls) : LsCallsOn(ls_calls[j]) = 1
    /\ \A i \in Emitted :
          emitted[i].type # "excluded" => LsCallsOn(emitted[i].path) = 1
    /\ \A i \in 2..Len(output) :
          ~YieldedExcluded(output[i].path) => LsCallsOn(output[i].path) = 1
    /\ (LsRun /\ LsAnswer.rc # "ok")
          => /\ \A f \in ListingFields : node[1][f] = None
             /\ node[1].ls_output = None
             /\ MsgLsFailed \in Range(node[1].error_msgs)
             /\ has_error(node[1])
             /\ pc \in {"roots", "root_sleep", "walking", "exit1"}
             /\ pc = "walking" => emitted[Len(emitted)].path = node[1].path
             /\ pc # "exit1" => output[Len(output)].path = node[1].path

\* C25's case: walk() has emitted, and _main written, the record of a node
\* on which `ls` failed, after another record.
C25_Witness ==
    /\ LsRun /\ LsAnswer.rc # "ok"
    /\ pc = "walking"
    /\ Len(emitted) >= 2
    /\ emitted[Len(emitted)].path = node[1].path
    /\ output[Len(output)].path = node[1].path


\* _scandir has just listed a directory, and the listing raised OSError.
ListingFailed == os_listing # None /\ stack # <<>> /\ os_listing[1].failed

\* The entries in the five buckets of a frame.
Buckets(frame) ==
    frame.directories \o frame.files \o frame.links \o frame.excluded
        \o frame.unknowns
NoBucket(frame) == Buckets(frame) = <<>>

\* The frames of the calls of walk() that wait for the innermost one.
Callers(frames) == SubSeq(frames, 1, Len(frames) - 1)

\* C26 as stated: when the listing of a directory fails, _scandir returns
\* five empty buckets and raises nothing.
C26_FailedListingEmpty ==
    ListingFailed => (NoBucket(Top) /\ pc = "walking" /\ raised = "")

\* C26, amended: when the listing of a directory fails, _scandir raises
\* nothing and returns in its buckets the entries the listing handed over
\* before it failed, and only them: none when it failed at once, and then
\* the walk of that directory emits nothing and has only to return.  The
\* calls of walk() above are left as they were, with their subdirectories
\* still to walk.
C26_FailedListingKeepsHandedOver ==
    [][ListingFailed' =>
          /\ pc' = "walking" /\ raised' = ""
          /\ Top'.scanned
          /\ {e.name : e \in Range(Buckets(Top'))} = Range(os_listing'[1].names)
          /\ Len(Buckets(Top')) = Len(os_listing'[1].names)
          /\ os_listing'[1].names = <<>> =>
                /\ NoBucket(Top')
                /\ AllVisited(Top')
                /\ Top'.nr = Len(subdir_entries(Top'))
          /\ Callers(stack') = Callers(stack)
          /\ emitted' = emitted /\ output' = output]_vars

\* C26's case: the listing of a subdirectory failed at once, and a sibling
\* subdirectory is still to be walked.
C26_Witness ==
    /\ ListingFailed /\ os_listing[1].names = <<>>
    /\ Len(stack) >= 2
    /\ stack[Len(stack) - 1].nr < Len(stack[Len(stack) - 1].directories)


\* The nodes classified by a scan and not described yet.
Pending == {path \in probe_calls : path \notin Range(ls_calls)
                                   /\ \E e \in listed : e.path = path}

\* C27 as stated: every step on a node, its classification included, is
\* completed before any step is started on the next node: never are two
\* nodes classified and not yet described and written.
C27_OneNodeAtATime == Cardinality(Pending) <= 1

\* The paths of the rows written for described nodes, in order.
IsDescribedRow(row) == ~row.header /\ ~YieldedExcluded(row.path)
DescribedRows ==
    LET rows == SelectSeq(output, IsDescribedRow)
    IN  [i \in 1..Len(rows) |-> rows[i].path]
WasRead(path) == path \in Range(read_calls)

\* C27, amended: the description of the nodes is sequential: the rows of
\* the described nodes are written in the order the nodes were listed by
\* `ls`, each before `ls` is run on the next node, the only described node
\* without a row being the one whose write ended the run; the contents are
\* read in that order too.  Classification comes before: a node met in a
\* walk was classified by the scan of its directory, with every other
\* entry that scan was handed.
C27_DescribedOneAtATime ==
    /\ DescribedRows = SubSeq(ls_calls, 1, Len(DescribedRows))
    /\ Len(ls_calls) - Len(DescribedRows) = IF pc = "exit1" /\ LsRun
                                            THEN 1 ELSE 0
    /\ SelectSeq(ls_calls, WasRead) = read_calls
    /\ \A j \in 1..Len(ls_calls) : ls_calls[j] \in probe_calls
    /\ \A i \in Emitted : \A e \in listed :
          (Parent(e.path) = Parent(emitted[i].path)
           /\ ~is_path_excluded(options.excluded, e.path))
              => e.path \in probe_calls

\* C27's case: two entries of one directory were classified by its scan;
\* the first is described, read and written, the second not yet.
C27_Witness ==
    /\ pc = "walking"
    /\ read_calls # <<>>
    /\ \E i \in Emitted : \E path \in Pending :
          /\ Parent(path) = Parent(emitted[i].path)
          /\ emitted[i].path \in Range(ls_calls)
          /\ emitted[i].path \in Range(DescribedRows)


\* The entry os.scandir() handed over at this path is a real directory that
\* is not excluded.
WalkedInto(path) ==
    /\ ~is_path_excluded(options.excluded, path)
    /\ \E e \in listed : e.path = path /\ e.kind = "dir"

\* The directories between a root and the parent of the entry at path,
\* the root left out.
Between(path) ==
    {SubSeq(path, 1, k) : k \in 2..(Len(path) - 1)}

\* How many records were emitted for the path.
EmittedFor(path) == Cardinality({i \in Emitted : emitted[i].path = path})

\* The walks of the roots met so far are over.
WalksOver == pc \in {"root_sleep", "done"} /\ stack = <<>>

\* C28: no entry is emitted twice, and once the walk of a root is over every
\* entry met beneath it has been emitted once.  An emitted entry lies
\* beneath its root through real directories only, none of them excluded:
\* no excluded directory and no symlink is ever listed or walked into.
C28_EachEntryOnce ==
    /\ \A i \in Emitted : EmittedFor(emitted[i].path) = 1
    /\ WalksOver => \A e \in listed : EmittedFor(e.path) = 1
    /\ \A i \in Emitted :
          /\ \E e \in listed : e.path = emitted[i].path
          /\ \A d \in Between(emitted[i].path) : WalkedInto(d)
    /\ \A j \in 1..Len(scandir_calls) :
          Len(scandir_calls[j]) > 1 => WalkedInto(scandir_calls[j])
    /\ \A e \in listed : \A d \in Between(e.path) : WalkedInto(d)

\* C28's case: the walk of a root is over; it met an excluded directory, a
\* symlink, and an entry two directories beneath the root, all emitted.
C28_Witness ==
    /\ WalksOver
    /\ \E i \in Emitted : emitted[i].type = "excluded"
    /\ \E i \in Emitted : emitted[i].type = "symlink"
    /\ \E i \in Emitted : Len(emitted[i].path) = 3


RowsFor(written, path) ==
    Cardinality({i \in 1..Len(written) : ~written[i].header
                                         /\ written[i].path = path})

\* The root the entry at path was given as or lies beneath, by its place on
\* the command line.
RootOf(path) ==
    CHOOSE r \in 1..Len(options.walked_pathes) :
        IsPrefix(options.walked_pathes[r], path)

====
